---------------------------- MODULE Spec2Model ----------------------------
(***************************************************************************)
(* Model of diff-note's DiffProcessor (src/src/diff-processor.ts) and of   *)
(* the pattern tables it uses (patterns.ts, kept as src/unnamed/part_001). *)
(* Strings are TLA+ strings; the JavaScript string and RegExp operations   *)
(* the code uses are defined below, character by character.                *)
(***************************************************************************)
EXTENDS Integers, Sequences, FiniteSets, TLC

(***************************************************************************)
(* JavaScript string primitives                                            *)
(***************************************************************************)

\* s.charAt(i - 1), "" outside the string
CharAt(s, i) == IF i >= 1 /\ i <= Len(s) THEN SubSeq(s, i, i) ELSE ""

\* s.startsWith(p)
StartsWith(s, p) == Len(s) >= Len(p) /\ SubSeq(s, 1, Len(p)) = p

\* s.endsWith(p)  (a RegExp literal anchored with $)
EndsWith(s, p) == Len(s) >= Len(p) /\ SubSeq(s, Len(s) - Len(p) + 1, Len(s)) = p

\* s.includes(p)  (an unanchored RegExp literal)
Includes(s, p) ==
    \E i \in 1..(Len(s) - Len(p) + 1) : SubSeq(s, i, i + Len(p) - 1) = p

StartsWithAny(s, L) == \E p \in L : StartsWith(s, p)
EndsWithAny(s, L) == \E p \in L : EndsWith(s, p)
IncludesAny(s, L) == \E p \in L : Includes(s, p)

UpperLetters == "ABCDEFGHIJKLMNOPQRSTUVWXYZ"
LowerLetters == "abcdefghijklmnopqrstuvwxyz"
UpperSet == {SubSeq(UpperLetters, i, i) : i \in 1..26}
LowerOf == [c \in UpperSet |->
              LET i == CHOOSE k \in 1..26 : SubSeq(UpperLetters, k, k) = c
              IN  SubSeq(LowerLetters, i, i)]

IsUpper(c) == c \in UpperSet

LowerChar(c) == IF IsUpper(c) THEN LowerOf[c] ELSE c

\* s.toLowerCase(), also the i flag of a RegExp
RECURSIVE ToLowerCase(_)
ToLowerCase(s) ==
    IF \A i \in 1..Len(s) : ~IsUpper(SubSeq(s, i, i)) THEN s
    ELSE IF Len(s) = 1 THEN LowerChar(s)
    ELSE LET h == Len(s) \div 2
         IN  ToLowerCase(SubSeq(s, 1, h)) \o ToLowerCase(SubSeq(s, h + 1, Len(s)))

\* the characters \s matches and trim() removes
IsSpace(c) == c \in {" ", "\t", "\r", "\n", "\f"}

AllSpace(s) == \A i \in 1..Len(s) : IsSpace(SubSeq(s, i, i))

\* s.trim(): the leading and the trailing white space are removed
Trim(s) ==
    IF AllSpace(s) THEN ""
    ELSE LET n == Len(s)
             lead == CHOOSE k \in 0..(n - 1) :
                        /\ ~IsSpace(SubSeq(s, k + 1, k + 1))
                        /\ \A j \in 1..k : IsSpace(SubSeq(s, j, j))
             trail == CHOOSE k \in 0..(n - 1) :
                         /\ ~IsSpace(SubSeq(s, n - k, n - k))
                         /\ \A j \in (n - k + 1)..n : IsSpace(SubSeq(s, j, j))
         IN  SubSeq(s, lead + 1, n - trail)

\* s.split('\n')
RECURSIVE Split(_)
Split(s) ==
    IF \A i \in 1..Len(s) : SubSeq(s, i, i) # "\n" THEN <<s>>
    ELSE IF Len(s) = 1 THEN <<"", "">>
    ELSE LET h == Len(s) \div 2
             l == Split(SubSeq(s, 1, h))
             r == Split(SubSeq(s, h + 1, Len(s)))
         IN  SubSeq(l, 1, Len(l) - 1) \o <<l[Len(l)] \o r[1]>> \o SubSeq(r, 2, Len(r))

\* parts.join(sep)
RECURSIVE Join(_, _)
Join(parts, sep) ==
    IF Len(parts) = 0 THEN ""
    ELSE IF Len(parts) = 1 THEN parts[1]
    ELSE LET h == Len(parts) \div 2
         IN  Join(SubSeq(parts, 1, h), sep) \o sep
               \o Join(SubSeq(parts, h + 1, Len(parts)), sep)

Digits == "0123456789"
DigitSet == {SubSeq(Digits, i, i) : i \in 1..10}
IsDigit(c) == c \in DigitSet
DigitVal(c) == (CHOOSE i \in 1..10 : SubSeq(Digits, i, i) = c) - 1

\* parseInt(s, 10) of a string of decimal digits
RECURSIVE ParseInt(_)
ParseInt(s) ==
    IF Len(s) = 0 THEN 0
    ELSE 10 * ParseInt(SubSeq(s, 1, Len(s) - 1)) + DigitVal(SubSeq(s, Len(s), Len(s)))

\* String(n) of a natural number, as a template literal prints it
RECURSIVE NumberToString(_)
NumberToString(n) ==
    IF n < 0 THEN "-" \o NumberToString(0 - n)
    ELSE IF n < 10 THEN SubSeq(Digits, n + 1, n + 1)
    ELSE NumberToString(n \div 10) \o SubSeq(Digits, (n % 10) + 1, (n % 10) + 1)

\* an optional value (undefined or a value)
Undefined == <<>>
Some(v) == <<v>>

(***************************************************************************)
(* patterns.ts                                                             *)
(***************************************************************************)

FileCategory == {"backend", "frontend", "infra", "config", "test", "docs", "other"}
ChangeType == {"feature", "refactor", "fix", "style", "dependency", "config", "docs"}
ImportanceLevel == {"high", "medium", "low"}

\* the language of \.[jt]sx?$ after the dot
JsExt == {".js", ".jsx", ".ts", ".tsx"}
\* \.<word>\.[jt]sx?$
DotWordJs(W) == {"." \o w \o e : w \in W, e \in JsExt}
\* \/(a|b|c)\/
Dir(W) == {"/" \o w \o "/" : w \in W}
\* ^(a|b|c)\/
Root(W) == {w \o "/" : w \in W}

BackendPatterns(f) ==
    \/ StartsWithAny(f, Root({"api", "server", "backend"}))
    \/ Includes(f, "/api/")
    \/ IncludesAny(f, Dir({"routes", "controllers", "handlers", "endpoints"}))
    \/ IncludesAny(f, Dir({"services", "service", "lib"}))
    \/ EndsWithAny(f, DotWordJs({"service"}))
    \/ EndsWithAny(f, DotWordJs({"controller"}))
    \/ EndsWithAny(f, DotWordJs({"handler"}))
    \/ IncludesAny(f, Dir({"models", "entities", "schemas", "db", "database",
                           "prisma", "drizzle"}))
    \/ EndsWithAny(f, DotWordJs({"model"}))
    \/ EndsWithAny(f, DotWordJs({"entity"}))
    \/ IncludesAny(f, Dir({"migrations", "seeds"}))
    \/ Includes(f, "/middleware/")
    \/ EndsWithAny(f, DotWordJs({"middleware"}))

\* /use[A-Z][^/]*\.[jt]sx?$/
UseHookPattern(f) ==
    \E i \in 1..(Len(f) - 2) :
        /\ SubSeq(f, i, i + 2) = "use"
        /\ IsUpper(CharAt(f, i + 3))
        /\ \E e \in JsExt :
              /\ EndsWith(f, e)
              /\ Len(f) - Len(e) >= i + 3
              /\ \A j \in (i + 4)..(Len(f) - Len(e)) : CharAt(f, j) # "/"

FrontendPatterns(f) ==
    \/ StartsWithAny(f, {"components/", "src/components/"})
    \/ StartsWithAny(f, {"pages/", "src/pages/"})
    \/ StartsWithAny(f, {"app/", "src/app/"})
    \/ EndsWithAny(f, DotWordJs({"component"}))
    \/ EndsWithAny(f, DotWordJs({"page"}))
    \/ IncludesAny(f, Dir({"hooks", "contexts", "providers"}))
    \/ EndsWithAny(f, DotWordJs({"hook"}))
    \/ UseHookPattern(f)
    \/ StartsWithAny(f, {"style/", "styles/", "src/style/", "src/styles/"})
    \/ EndsWithAny(f, {".module.css", ".module.scss", ".module.sass"})
    \/ EndsWithAny(f, DotWordJs({"styled"}))
    \/ IncludesAny(f, Dir({"store", "stores", "redux", "zustand", "recoil"}))
    \/ EndsWithAny(f, DotWordJs({"slice"}))
    \/ EndsWithAny(f, DotWordJs({"store"}))

InfraPatterns(f) ==
    \/ StartsWith(f, "Dockerfile")
    \/ StartsWith(f, "docker-compose")
    \/ EndsWith(f, ".docker")
    \/ StartsWith(f, ".docker/")
    \/ StartsWithAny(f, {".github/workflows/", ".github/actions/"})
    \/ StartsWith(f, ".gitlab-ci")
    \/ StartsWith(f, ".circleci/")
    \/ StartsWith(f, "Jenkinsfile")
    \/ f = ".travis.yml"
    \/ StartsWith(f, "azure-pipelines")
    \/ StartsWith(f, "bitbucket-pipelines")
    \/ StartsWithAny(f, Root({"terraform", "tf"}))
    \/ EndsWith(f, ".tf")
    \/ StartsWith(f, "pulumi/")
    \/ StartsWith(f, "cdk/")
    \/ StartsWithAny(f, Root({"k8s", "kubernetes", "helm", "charts"}))
    \/ StartsWith(f, "serverless.")
    \/ f = "vercel.json"
    \/ f = "netlify.toml"

ConfigPatterns(f) ==
    \/ f = "package.json"
    \/ StartsWith(f, "tsconfig")
    \/ StartsWith(f, "jsconfig")
    \/ EndsWithAny(f, DotWordJs({"config", "rc"}))
    \/ StartsWith(f, "vite.config")
    \/ StartsWith(f, "webpack.config")
    \/ StartsWith(f, "rollup.config")
    \/ StartsWith(f, "esbuild")
    \/ StartsWith(f, "babel.config")
    \/ StartsWith(f, ".babelrc")
    \/ StartsWith(f, ".eslint")
    \/ StartsWith(f, ".prettier")
    \/ StartsWith(f, ".stylelint")
    \/ f = ".editorconfig"
    \/ StartsWith(f, ".env")
    \/ f = ".nvmrc"
    \/ f = ".node-version"
    \/ f = ".tool-versions"

TestDirs == {"test", "tests", "__tests__", "spec", "specs"}

TestPatterns(f) ==
    \/ EndsWithAny(f, DotWordJs({"test"}))
    \/ EndsWithAny(f, DotWordJs({"spec"}))
    \/ EndsWithAny(f, DotWordJs({"e2e"}))
    \/ StartsWithAny(f, Root(TestDirs))
    \/ IncludesAny(f, Dir(TestDirs))
    \/ StartsWith(f, "cypress/")
    \/ StartsWith(f, "playwright/")
    \/ EndsWithAny(f, DotWordJs({"stories"}))
    \/ StartsWith(f, ".storybook/")
    \/ Includes(f, "jest.config")
    \/ Includes(f, "vitest.config")

DocsPatterns(f) ==
    \/ EndsWith(f, ".md")
    \/ EndsWith(f, ".mdx")
    \/ EndsWith(f, ".txt")
    \/ StartsWithAny(f, {"doc/", "docs/"})
    \/ StartsWith(ToLowerCase(f), "readme")
    \/ StartsWith(ToLowerCase(f), "changelog")
    \/ StartsWith(ToLowerCase(f), "contributing")
    \/ StartsWith(ToLowerCase(f), "license")
    \/ StartsWith(ToLowerCase(f), "security")
    \/ StartsWith(ToLowerCase(f), "code_of_conduct")
    \/ EndsWith(f, ".rst")

\* CATEGORY_PATTERNS[c].some((pattern) => pattern.test(f))
CATEGORY_PATTERNS(c, f) ==
    CASE c = "backend" -> BackendPatterns(f)
      [] c = "frontend" -> FrontendPatterns(f)
      [] c = "infra" -> InfraPatterns(f)
      [] c = "config" -> ConfigPatterns(f)
      [] c = "test" -> TestPatterns(f)
      [] c = "docs" -> DocsPatterns(f)
      [] c = "other" -> FALSE

SKIP_PATTERNS(f) ==
    \/ EndsWithAny(f, {"package-lock.json", "yarn.lock", "pnpm-lock.yaml",
                       "Gemfile.lock", "Cargo.lock", "poetry.lock",
                       "composer.lock", "go.sum", "Pipfile.lock"})
    \/ EndsWithAny(f, DotWordJs({"generated", "g", "gen", "auto"}))
    \/ IncludesAny(f, Dir({"generated", "__generated__"}))
    \/ EndsWithAny(f, DotWordJs({"min", "bundle", "chunk"}))
    \/ EndsWith(f, ".min.css")
    \/ EndsWith(f, ".map")
    \/ StartsWithAny(f, Root({"dist", "build", "out", ".next", ".nuxt"}))
    \/ IncludesAny(f, Dir({"swagger", "openapi"}))
    \/ EndsWithAny(f, DotWordJs({"swagger", "openapi"}))
    \/ Includes(f, "/graphql/generated/")
    \/ Includes(f, "__generated__/graphql")
    \/ Includes(f, ".idea/")
    \/ EndsWithAny(f, {".vscode/settings.json", ".vscode/extensions.json"})
    \/ EndsWithAny(ToLowerCase(f), {".png", ".jpg", ".jpeg", ".gif", ".ico",
                                    ".svg", ".webp"})
    \/ EndsWithAny(ToLowerCase(f), {".woff", ".woff2", ".ttf", ".eot"})
    \/ EndsWithAny(ToLowerCase(f), {".mp3", ".mp4", ".wav", ".avi", ".mov"})
    \/ EndsWithAny(ToLowerCase(f), {".pdf", ".zip", ".tar", ".gz"})
    \/ StartsWithAny(f, Root({"vendor", "node_modules"}))

\* /^[+-]\s*X?\s*$/ for X = ";" or ","
SignThenOptional(s, x) ==
    /\ CharAt(s, 1) \in {"+", "-"}
    /\ LET rest == SubSeq(s, 2, Len(s))
           xs == {i \in 1..Len(rest) : ~IsSpace(SubSeq(rest, i, i))}
       IN  \/ xs = {}
           \/ \E i \in 1..Len(rest) : xs = {i} /\ SubSeq(rest, i, i) = x

\* FORMATTING_PATTERNS.some((p) => p.test(s))
FORMATTING_PATTERNS(s) ==
    \/ AllSpace(s)
    \/ SignThenOptional(s, ";")
    \/ SignThenOptional(s, ",")

CATEGORY_PRIORITY ==
    [backend |-> 100, frontend |-> 80, config |-> 60, infra |-> 50,
     other |-> 40, docs |-> 30, test |-> 20]

CATEGORY_TOKEN_BUDGET ==
    [backend |-> 1000, frontend |-> 800, config |-> 300, infra |-> 300,
     docs |-> 200, test |-> 200, other |-> 200]

CATEGORY_LINE_LIMITS ==
    [backend |-> 30, frontend |-> 25, infra |-> 20, config |-> 15,
     other |-> 15, docs |-> 10, test |-> 10]

CATEGORY_LABELS ==
    [backend |-> "backend-label", frontend |-> "frontend-label",
     infra |-> "infra-label", config |-> "config-label",
     test |-> "test-label", docs |-> "docs-label", other |-> "other-label"]

ADR_TRIGGER_PATTERNS(f) ==
    \/ IncludesAny(ToLowerCase(f), {"config", "schema", "migration", "docker",
                                    "infrastructure", "auth", "security"})
    \/ EndsWith(f, ".prisma")
    \/ EndsWithAny(f, {".yml", ".yaml"})
    \/ EndsWith(f, ".tf")

(***************************************************************************)
(* diff-processor.ts: DiffProcessor                                        *)
(***************************************************************************)

CHARS_PER_TOKEN == 4

Min(S) == CHOOSE x \in S : \A y \in S : x <= y
Max2(a, b) == IF a >= b THEN a ELSE b

\* array.slice(0, n)
Slice0(arr, n) == SubSeq(arr, 1, IF n < Len(arr) THEN n ELSE Len(arr))

\* array.filter(P)
Filter(arr, P(_)) == SelectSeq(arr, P)

\* array.flatMap(F)
FlatMap(arr, F(_)) ==
    LET acc[i \in 0..Len(arr)] == IF i = 0 THEN <<>> ELSE acc[i - 1] \o F(arr[i])
    IN  acc[Len(arr)]

\* array.reduce((sum, x) => sum + F(x), 0)
SumOf(arr, F(_)) ==
    LET acc[i \in 0..Len(arr)] == IF i = 0 THEN 0 ELSE acc[i - 1] + F(arr[i])
    IN  acc[Len(arr)]

\* [...new Set(arr)]: first occurrences, in order
RECURSIVE Distinct(_)
Distinct(arr) ==
    IF arr = <<>> THEN <<>>
    ELSE LET init == Distinct(SubSeq(arr, 1, Len(arr) - 1))
             last == arr[Len(arr)]
         IN  IF \E i \in 1..Len(init) : init[i] = last THEN init
             ELSE Append(init, last)

\* file.patch is a string that is neither undefined nor empty
HasPatch(file) == file.patch # Undefined /\ file.patch[1] # ""

\* Step 1 without the filter
filterSkippedFilesKeepAll(fs) == fs

\* Step 1
filterSkippedFiles(fs) ==
    LET keep(file) == ~SKIP_PATTERNS(file.filename)
    IN  Filter(fs, keep)

\* the test block moved to the front of the order
categoryOrderTestFirst == <<"test", "backend", "frontend", "infra", "config", "docs">>

categoryOrder == <<"backend", "frontend", "infra", "test", "config", "docs">>

RECURSIVE FirstMatchFrom(_, _)
FirstMatchFrom(i, filename) ==
    IF i > Len(categoryOrder) THEN Undefined
    ELSE IF CATEGORY_PATTERNS(categoryOrder[i], filename) THEN Some(categoryOrder[i])
    ELSE FirstMatchFrom(i + 1, filename)

\* the last return gives backend too
detectCategoryNoOther(filename) ==
    LET m == FirstMatchFrom(1, filename)
    IN  IF m # Undefined THEN m[1]
        ELSE IF EndsWithAny(filename, JsExt)
             THEN IF Includes(filename, "component") \/ Includes(filename, "page")
                  THEN "frontend" ELSE "backend"
        ELSE "backend"

detectCategory(filename) ==
    LET m == FirstMatchFrom(1, filename)
    IN  IF m # Undefined THEN m[1]
        ELSE IF EndsWithAny(filename, JsExt)
             THEN IF Includes(filename, "component") \/ Includes(filename, "page")
                  THEN "frontend" ELSE "backend"
        ELSE "other"

truncateContent(content, maxLength) ==
    IF Len(content) > maxLength
    THEN SubSeq(content, 1, maxLength) \o "..."
    ELSE content

BracketChars == {"{", "}", "[", "]", "(", ")", ",", ";"}

isMeaningfulLine(content) ==
    IF content = "" THEN FALSE
    ELSE IF StartsWith(content, "//") THEN FALSE
    ELSE IF StartsWith(content, "#") /\ ~StartsWith(content, "#!") THEN FALSE
    ELSE IF StartsWith(content, "/*") \/ StartsWith(content, "*") THEN FALSE
    ELSE IF \A i \in 1..Len(content) : SubSeq(content, i, i) \in BracketChars THEN FALSE
    ELSE IF AllSpace(content) THEN FALSE
    ELSE TRUE

\* first index >= i of s whose character does not satisfy P (Len(s) + 1 if none)
SpanEnd(s, i, P(_)) ==
    LET stop == {j \in i..Len(s) : ~P(SubSeq(s, j, j))}
    IN  IF stop = {} THEN Max2(i, Len(s) + 1) ELSE Min(stop)

\* line.match(/^@@\s+-\d+(?:,\d+)?\s+\+(\d+)/): the captured group, if it matches
hunkMatch(line) ==
    IF ~StartsWith(line, "@@") THEN Undefined
    ELSE LET a == SpanEnd(line, 3, IsSpace)
             b == SpanEnd(line, a + 1, IsDigit)
             c == SpanEnd(line, b + 1, IsDigit)
             p == IF CharAt(line, b) = "," /\ c > b + 1 THEN c ELSE b
             d == SpanEnd(line, p, IsSpace)
             e == SpanEnd(line, d + 1, IsDigit)
         IN  IF /\ a > 3 /\ CharAt(line, a) = "-" /\ b > a + 1
                /\ d > p /\ CharAt(line, d) = "+" /\ e > d + 1
             THEN Some(SubSeq(line, d + 1, e - 1))
             ELSE Undefined

\* one iteration of the for loop of extractMeaningfulChanges: the loop state
\* (changes, currentContext, lineNumber) after the line
extractLine(st, line) ==
    LET plus == StartsWith(line, "+")
        content == Trim(SubSeq(line, 2, Len(line)))
        bumped == IF plus THEN st.lineNumber + 1 ELSE st.lineNumber
    IN  IF hunkMatch(line) # Undefined
        THEN [st EXCEPT !.lineNumber = ParseInt(hunkMatch(line)[1])]
        ELSE IF ~plus /\ ~StartsWith(line, "-")
        THEN [st EXCEPT
                !.currentContext = IF StartsWith(line, " ") THEN content ELSE @,
                !.lineNumber = @ + 1]
        ELSE IF StartsWith(line, "+++") \/ StartsWith(line, "---")
        THEN st
        ELSE IF ~isMeaningfulLine(content)
        THEN [st EXCEPT !.lineNumber = bumped]
        ELSE IF FORMATTING_PATTERNS(content)
        THEN [st EXCEPT !.lineNumber = bumped]
        ELSE [st EXCEPT
                !.changes = Append(@,
                   [type |-> IF plus THEN "added" ELSE "removed",
                    content |-> truncateContent(content, 100),
                    context |-> IF st.currentContext # "" THEN Some(st.currentContext)
                                ELSE Undefined,
                    lineNumber |-> IF plus THEN Some(st.lineNumber) ELSE Undefined]),
                !.lineNumber = bumped]

\* the for loop over lines[lo..hi], started in loop state st: the loop state
\* after lines[lo..mid] is computed first, then the loop goes on from it
RECURSIVE extractLines(_, _, _, _)
extractLines(lines, lo, hi, st) ==
    IF lo > hi THEN st
    ELSE IF lo = hi THEN extractLine(st, lines[lo])
    ELSE LET mid == (lo + hi) \div 2
             half == extractLines(lines, lo, mid, st)
         IN  IF Len(half.changes) >= 0
             THEN extractLines(lines, mid + 1, hi, half)
             ELSE half

extractMeaningfulChanges(file) ==
    IF ~HasPatch(file) THEN <<>>
    ELSE LET lines == Split(file.patch[1])
         IN  extractLines(lines, 1, Len(lines),
                          [changes |-> <<>>, currentContext |-> "", lineNumber |-> 0]).changes

detectFormattingOnly(file, changes) ==
    IF Len(changes) = 0 /\ file.additions + file.deletions > 0 THEN TRUE
    ELSE IF Len(changes) > 0
            /\ \A i \in 1..Len(changes) : FORMATTING_PATTERNS(changes[i].content)
    THEN TRUE
    ELSE FALSE

CountType(changes, t) == Cardinality({i \in 1..Len(changes) : changes[i].type = t})

\* the rule of the keywords moved before the rule of the status added
detectChangeTypeKeywordsFirst(file, changes) ==
    LET content == ToLowerCase(Join([i \in 1..Len(changes) |-> changes[i].content], "\n"))
    IN  IF EndsWithAny(file.filename, {".md", ".txt", ".rst"}) THEN "docs"
        ELSE IF IncludesAny(content, {"fix", "bug", "error", "patch"}) THEN "fix"
        ELSE IF file.status = "added" THEN "feature"
        ELSE IF Includes(file.filename, "package.json")
                \/ Includes(file.filename, "requirements.txt") THEN "dependency"
        ELSE IF \/ Includes(file.filename, "config")
                \/ Includes(file.filename, ".env")
                \/ EndsWithAny(file.filename, {".yml", ".yaml"}) THEN "config"
        ELSE IF CountType(changes, "added") = CountType(changes, "removed")
        THEN "refactor"
        ELSE "feature"

\* without the rule of the keywords fix, bug, error, patch
detectChangeTypeNoKeywords(file, changes) ==
    IF EndsWithAny(file.filename, {".md", ".txt", ".rst"}) THEN "docs"
    ELSE IF file.status = "added" THEN "feature"
    ELSE IF Includes(file.filename, "package.json")
            \/ Includes(file.filename, "requirements.txt") THEN "dependency"
    ELSE IF \/ Includes(file.filename, "config")
            \/ Includes(file.filename, ".env")
            \/ EndsWithAny(file.filename, {".yml", ".yaml"}) THEN "config"
    ELSE IF CountType(changes, "added") = CountType(changes, "removed")
    THEN "refactor"
    ELSE "feature"

detectChangeType(file, changes) ==
    LET content == ToLowerCase(Join([i \in 1..Len(changes) |-> changes[i].content], "\n"))
    IN  IF EndsWithAny(file.filename, {".md", ".txt", ".rst"}) THEN "docs"
        ELSE IF file.status = "added" THEN "feature"
        ELSE IF Includes(file.filename, "package.json")
                \/ Includes(file.filename, "requirements.txt") THEN "dependency"
        ELSE IF \/ Includes(file.filename, "config")
                \/ Includes(file.filename, ".env")
                \/ EndsWithAny(file.filename, {".yml", ".yaml"}) THEN "config"
        ELSE IF IncludesAny(content, {"fix", "bug", "error", "patch"}) THEN "fix"
        ELSE IF CountType(changes, "added") = CountType(changes, "removed")
        THEN "refactor"
        ELSE "feature"

\* the rule of the category test moved before the rules of the path
calculateImportanceTestFirst(file, category, changeType) ==
    IF category = "backend" /\ file.additions > 50 THEN "high"
    ELSE IF changeType = "feature" /\ file.status = "added" THEN "high"
    ELSE IF category = "test" THEN "low"
    ELSE IF Includes(file.filename, "schema") \/ Includes(file.filename, "migration")
    THEN "high"
    ELSE IF Includes(file.filename, "auth") \/ Includes(file.filename, "security")
    THEN "high"
    ELSE IF category = "docs" /\ changeType # "feature" THEN "low"
    ELSE IF changeType = "style" THEN "low"
    ELSE "medium"

calculateImportance(file, category, changeType) ==
    IF category = "backend" /\ file.additions > 50 THEN "high"
    ELSE IF changeType = "feature" /\ file.status = "added" THEN "high"
    ELSE IF Includes(file.filename, "schema") \/ Includes(file.filename, "migration")
    THEN "high"
    ELSE IF Includes(file.filename, "auth") \/ Includes(file.filename, "security")
    THEN "high"
    ELSE IF category = "test" THEN "low"
    ELSE IF category = "docs" /\ changeType # "feature" THEN "low"
    ELSE IF changeType = "style" THEN "low"
    ELSE "medium"

detectGenerated(file) ==
    IF EndsWithAny(file.filename, DotWordJs({"generated", "g", "gen", "auto"}))
    THEN TRUE
    ELSE IF HasPatch(file)
            /\ IncludesAny(Join(Slice0(Split(file.patch[1]), 10), "\n"),
                           {"auto-generated", "DO NOT EDIT", "@generated"})
    THEN TRUE
    ELSE FALSE

\* Step 2
enhanceFileDiff(file) ==
    LET category == detectCategory(file.filename)
        meaningfulChanges == extractMeaningfulChanges(file)
        isFormattingOnly == detectFormattingOnly(file, meaningfulChanges)
        changeType == detectChangeType(file, meaningfulChanges)
        importance == calculateImportance(file, category, changeType)
        isGenerated == detectGenerated(file)
    IN  [filename |-> file.filename, status |-> file.status,
         additions |-> file.additions, deletions |-> file.deletions,
         patch |-> file.patch,
         category |-> category, changeType |-> changeType,
         importance |-> importance, isGenerated |-> isGenerated,
         isFormattingOnly |-> isFormattingOnly,
         meaningfulChanges |-> meaningfulChanges,
         truncated |-> FALSE,
         originalLineCount |-> Len(meaningfulChanges)]

importanceOrder == [high |-> 0, medium |-> 1, low |-> 2]

\* Array.prototype.sort((a, b) => key(a) - key(b)): stable, ascending by key
SortBy(arr, key(_)) ==
    LET insert(init, x) ==
            LET le == {i \in 1..Len(init) : key(init[i]) - key(x) <= 0}
                k == IF le = {} THEN 0 ELSE CHOOSE i \in le : \A j \in le : j <= i
            IN  SubSeq(init, 1, k) \o <<x>> \o SubSeq(init, k + 1, Len(init))
        acc[i \in 0..Len(arr)] == IF i = 0 THEN <<>> ELSE insert(acc[i - 1], arr[i])
    IN  acc[Len(arr)]

\* Step 3 (the key order of the result object is the order of its literal)
categoryKeys == <<"backend", "frontend", "infra", "config", "test", "docs", "other">>

\* the result literal lacks the bucket other: files of that category are lost
categorizeFilesNoOther(fs) ==
    [c \in FileCategory |->
        LET inCat(file) == file.category = c /\ c # "other"
            byImportance(file) == importanceOrder[file.importance]
        IN  SortBy(Filter(fs, inCat), byImportance)]

\* the buckets without the sort
categorizeFilesNoSort(fs) ==
    [c \in FileCategory |->
        LET inCat(file) == file.category = c
        IN  Filter(fs, inCat)]

categorizeFiles(fs) ==
    [c \in FileCategory |->
        LET inCat(file) == file.category = c
            byImportance(file) == importanceOrder[file.importance]
        IN  SortBy(Filter(fs, inCat), byImportance)]

estimateTokens(changes) ==
    LET chars(c) == Len(c.content) + (IF c.context # Undefined THEN Len(c.context[1]) ELSE 0)
        totalChars == SumOf(changes, chars)
    IN  (totalChars + CHARS_PER_TOKEN - 1) \div CHARS_PER_TOKEN

\* Step 4: Object.keys(categories) sorted by descending CATEGORY_PRIORITY
orderedCategories ==
    LET negPriority(c) == 0 - CATEGORY_PRIORITY[c]
    IN  SortBy(categoryKeys, negPriority)

\* the largest e with 2^e * q <= p, for p, q > 0
RECURSIVE floorLog2(_, _)
floorLog2(p, q) ==
    IF p >= 2 * q THEN 1 + floorLog2(p, 2 * q)
    ELSE IF p < q THEN floorLog2(2 * p, q) - 1
    ELSE 0

\* 2^s modulo modulus
RECURSIVE PowerOfTwoMod(_, _)
PowerOfTwoMod(s, modulus) ==
    IF s = 0 THEN 1 % modulus ELSE (2 * PowerOfTwoMod(s - 1, modulus)) % modulus

\* Math.floor(remainingBudget / avgTokensPerChange) with avgTokensPerChange =
\* fileTokens / length, both divisions in IEEE 754 double precision, for
\* positive integers.  The average is fileTokens / length rounded to 53
\* bits: of fileTokens * 2^s = A * length + r, with s = 52 - floorLog2, the
\* average is A / 2^s, or (A + 1) / 2^s when r is over half of length (or
\* half of it and A odd).  When remainingBudget * length is not a multiple of
\* fileTokens the quotient is further from a whole number than the rounding
\* moves it, and the result is the exact floor.  When it is a multiple, the
\* exact quotient is a whole number m; an average rounded up gives a quotient
\* under m, which rounds to a double under m, and so to the floor m - 1, iff
\* it is more than half a unit in the last place of m under m:
\*     (fileTokens * 2^s + length - r) * 2^(e - 53) < m * (length - r),
\* with e = floorLog2(m), which is the comparison made here after division
\* by the common power of two.
FloorOfDoubleQuotient(remainingBudget, fileTokens, length) ==
    LET exact == (remainingBudget * length) \div fileTokens
        ea == floorLog2(fileTokens, length)
        s == 52 - ea
        r == (fileTokens * PowerOfTwoMod(s, length)) % length
        odd == (fileTokens * PowerOfTwoMod(s, 2 * length)) % (2 * length) >= length
        roundedUp == 2 * r > length \/ (2 * r = length /\ odd)
        d == floorLog2(exact, 1) - ea - 1
        below == IF d >= 0
                 THEN fileTokens * 2^d < exact * (length - r)
                 ELSE fileTokens < exact * (length - r) * 2^(0 - d)
    IN  IF (remainingBudget * length) % fileTokens # 0 \/ exact = 0 THEN exact
        ELSE IF roundedUp /\ below THEN exact - 1
        ELSE exact

\* the callback without the branch of the exhausted budget
truncateFileNoExhausted(file, category, tokens) ==
    LET budget == CATEGORY_TOKEN_BUDGET[category]
        lineLimit == CATEGORY_LINE_LIMITS[category]
        truncatedChanges == Slice0(file.meaningfulChanges, lineLimit)
        fileTokens == estimateTokens(truncatedChanges)
        remainingBudget == budget - tokens
        changesWeCanInclude ==
            Max2(1, IF Len(truncatedChanges) > 0
                    THEN FloorOfDoubleQuotient(remainingBudget, fileTokens, Len(truncatedChanges))
                    ELSE remainingBudget)
    IN  IF tokens + fileTokens > budget
        THEN [file |-> [file EXCEPT
                          !.meaningfulChanges = Slice0(truncatedChanges, changesWeCanInclude),
                          !.truncated = changesWeCanInclude < Len(file.meaningfulChanges)],
              tokens |-> tokens + estimateTokens(Slice0(truncatedChanges, changesWeCanInclude))]
        ELSE [file |-> [file EXCEPT
                          !.meaningfulChanges = truncatedChanges,
                          !.truncated = Len(truncatedChanges) < Len(file.meaningfulChanges)],
              tokens |-> tokens + fileTokens]

\* the callback whose exhausted branch returns the file as it came
truncateFileExhaustedKeeps(file, category, tokens) ==
    LET budget == CATEGORY_TOKEN_BUDGET[category]
        lineLimit == CATEGORY_LINE_LIMITS[category]
        truncatedChanges == Slice0(file.meaningfulChanges, lineLimit)
        fileTokens == estimateTokens(truncatedChanges)
        remainingBudget == budget - tokens
        changesWeCanInclude ==
            Max2(1, IF Len(truncatedChanges) > 0
                    THEN FloorOfDoubleQuotient(remainingBudget, fileTokens, Len(truncatedChanges))
                    ELSE remainingBudget)
    IN  IF tokens >= budget
        THEN [file |-> file, tokens |-> tokens]
        ELSE IF tokens + fileTokens > budget
        THEN [file |-> [file EXCEPT
                          !.meaningfulChanges = Slice0(truncatedChanges, changesWeCanInclude),
                          !.truncated = changesWeCanInclude < Len(file.meaningfulChanges)],
              tokens |-> tokens + estimateTokens(Slice0(truncatedChanges, changesWeCanInclude))]
        ELSE [file |-> [file EXCEPT
                          !.meaningfulChanges = truncatedChanges,
                          !.truncated = Len(truncatedChanges) < Len(file.meaningfulChanges)],
              tokens |-> tokens + fileTokens]

\* the number of changes of the longest prefix of changes that costs at most
\* remainingBudget
LongestFittingPrefix(changes, remainingBudget) ==
    LET fitting == {k \in 0..Len(changes) :
                       estimateTokens(Slice0(changes, k)) <= remainingBudget}
    IN  CHOOSE k \in fitting : \A j \in fitting : j <= k

\* the callback whose overflow branch keeps the longest prefix that fits
truncateFileLongestPrefix(file, category, tokens) ==
    LET budget == CATEGORY_TOKEN_BUDGET[category]
        lineLimit == CATEGORY_LINE_LIMITS[category]
        truncatedChanges == Slice0(file.meaningfulChanges, lineLimit)
        fileTokens == estimateTokens(truncatedChanges)
        remainingBudget == budget - tokens
        changesWeCanInclude ==
            Max2(1, LongestFittingPrefix(truncatedChanges, remainingBudget))
    IN  IF tokens >= budget
        THEN [file |-> [file EXCEPT !.meaningfulChanges = <<>>, !.truncated = TRUE],
              tokens |-> tokens]
        ELSE IF tokens + fileTokens > budget
        THEN [file |-> [file EXCEPT
                          !.meaningfulChanges = Slice0(truncatedChanges, changesWeCanInclude),
                          !.truncated = changesWeCanInclude < Len(file.meaningfulChanges)],
              tokens |-> tokens + estimateTokens(Slice0(truncatedChanges, changesWeCanInclude))]
        ELSE [file |-> [file EXCEPT
                          !.meaningfulChanges = truncatedChanges,
                          !.truncated = Len(truncatedChanges) < Len(file.meaningfulChanges)],
              tokens |-> tokens + fileTokens]

\* the callback without the cap of the line limit
truncateFileNoLineLimit(file, category, tokens) ==
    LET budget == CATEGORY_TOKEN_BUDGET[category]
        truncatedChanges == file.meaningfulChanges
        fileTokens == estimateTokens(truncatedChanges)
        remainingBudget == budget - tokens
        changesWeCanInclude ==
            Max2(1, IF Len(truncatedChanges) > 0
                    THEN FloorOfDoubleQuotient(remainingBudget, fileTokens, Len(truncatedChanges))
                    ELSE remainingBudget)
    IN  IF tokens >= budget
        THEN [file |-> [file EXCEPT !.meaningfulChanges = <<>>, !.truncated = TRUE],
              tokens |-> tokens]
        ELSE IF tokens + fileTokens > budget
        THEN [file |-> [file EXCEPT
                          !.meaningfulChanges = Slice0(truncatedChanges, changesWeCanInclude),
                          !.truncated = changesWeCanInclude < Len(file.meaningfulChanges)],
              tokens |-> tokens + estimateTokens(Slice0(truncatedChanges, changesWeCanInclude))]
        ELSE [file |-> [file EXCEPT
                          !.meaningfulChanges = truncatedChanges,
                          !.truncated = Len(truncatedChanges) < Len(file.meaningfulChanges)],
              tokens |-> tokens + fileTokens]

\* the callback whose overflow branch keeps the last changes of the capped
\* list instead of the first
truncateFileKeepsLast(file, category, tokens) ==
    LET budget == CATEGORY_TOKEN_BUDGET[category]
        lineLimit == CATEGORY_LINE_LIMITS[category]
        truncatedChanges == Slice0(file.meaningfulChanges, lineLimit)
        fileTokens == estimateTokens(truncatedChanges)
        remainingBudget == budget - tokens
        changesWeCanInclude ==
            Max2(1, IF Len(truncatedChanges) > 0
                    THEN FloorOfDoubleQuotient(remainingBudget, fileTokens, Len(truncatedChanges))
                    ELSE remainingBudget)
        last == SubSeq(truncatedChanges,
                       Max2(1, Len(truncatedChanges) - changesWeCanInclude + 1),
                       Len(truncatedChanges))
    IN  IF tokens >= budget
        THEN [file |-> [file EXCEPT !.meaningfulChanges = <<>>, !.truncated = TRUE],
              tokens |-> tokens]
        ELSE IF tokens + fileTokens > budget
        THEN [file |-> [file EXCEPT
                          !.meaningfulChanges = last,
                          !.truncated = changesWeCanInclude < Len(file.meaningfulChanges)],
              tokens |-> tokens + estimateTokens(last)]
        ELSE [file |-> [file EXCEPT
                          !.meaningfulChanges = truncatedChanges,
                          !.truncated = Len(truncatedChanges) < Len(file.meaningfulChanges)],
              tokens |-> tokens + fileTokens]

\* the callback whose overflow branch always sets truncated
truncateFileOverflowFlagged(file, category, tokens) ==
    LET budget == CATEGORY_TOKEN_BUDGET[category]
        lineLimit == CATEGORY_LINE_LIMITS[category]
        truncatedChanges == Slice0(file.meaningfulChanges, lineLimit)
        fileTokens == estimateTokens(truncatedChanges)
        remainingBudget == budget - tokens
        changesWeCanInclude ==
            Max2(1, IF Len(truncatedChanges) > 0
                    THEN FloorOfDoubleQuotient(remainingBudget, fileTokens, Len(truncatedChanges))
                    ELSE remainingBudget)
    IN  IF tokens >= budget
        THEN [file |-> [file EXCEPT !.meaningfulChanges = <<>>, !.truncated = TRUE],
              tokens |-> tokens]
        ELSE IF tokens + fileTokens > budget
        THEN [file |-> [file EXCEPT
                          !.meaningfulChanges = Slice0(truncatedChanges, changesWeCanInclude),
                          !.truncated = TRUE],
              tokens |-> tokens + estimateTokens(Slice0(truncatedChanges, changesWeCanInclude))]
        ELSE [file |-> [file EXCEPT
                          !.meaningfulChanges = truncatedChanges,
                          !.truncated = Len(truncatedChanges) < Len(file.meaningfulChanges)],
              tokens |-> tokens + fileTokens]

\* the callback whose overflow branch leaves truncated as it was
truncateFileOverflowUnflagged(file, category, tokens) ==
    LET budget == CATEGORY_TOKEN_BUDGET[category]
        lineLimit == CATEGORY_LINE_LIMITS[category]
        truncatedChanges == Slice0(file.meaningfulChanges, lineLimit)
        fileTokens == estimateTokens(truncatedChanges)
        remainingBudget == budget - tokens
        changesWeCanInclude ==
            Max2(1, IF Len(truncatedChanges) > 0
                    THEN FloorOfDoubleQuotient(remainingBudget, fileTokens, Len(truncatedChanges))
                    ELSE remainingBudget)
    IN  IF tokens >= budget
        THEN [file |-> [file EXCEPT !.meaningfulChanges = <<>>, !.truncated = TRUE],
              tokens |-> tokens]
        ELSE IF tokens + fileTokens > budget
        THEN [file |-> [file EXCEPT
                          !.meaningfulChanges = Slice0(truncatedChanges, changesWeCanInclude)],
              tokens |-> tokens + estimateTokens(Slice0(truncatedChanges, changesWeCanInclude))]
        ELSE [file |-> [file EXCEPT
                          !.meaningfulChanges = truncatedChanges,
                          !.truncated = Len(truncatedChanges) < Len(file.meaningfulChanges)],
              tokens |-> tokens + fileTokens]

\* the callback of categories[category].map in applyTruncation:
\* the truncated file and the new value of categoryTokens
truncateFile(file, category, tokens) ==
    LET budget == CATEGORY_TOKEN_BUDGET[category]
        lineLimit == CATEGORY_LINE_LIMITS[category]
        truncatedChanges == Slice0(file.meaningfulChanges, lineLimit)
        fileTokens == estimateTokens(truncatedChanges)
        remainingBudget == budget - tokens
        \* Math.max(1, Math.floor(remainingBudget / avgTokensPerChange));
        \* with no changes the average is 1
        changesWeCanInclude ==
            Max2(1, IF Len(truncatedChanges) > 0
                    THEN FloorOfDoubleQuotient(remainingBudget, fileTokens, Len(truncatedChanges))
                    ELSE remainingBudget)
    IN  IF tokens >= budget
        THEN [file |-> [file EXCEPT !.meaningfulChanges = <<>>, !.truncated = TRUE],
              tokens |-> tokens]
        ELSE IF tokens + fileTokens > budget
        THEN [file |-> [file EXCEPT
                          !.meaningfulChanges = Slice0(truncatedChanges, changesWeCanInclude),
                          !.truncated = changesWeCanInclude < Len(file.meaningfulChanges)],
              tokens |-> tokens + estimateTokens(Slice0(truncatedChanges, changesWeCanInclude))]
        ELSE [file |-> [file EXCEPT
                          !.meaningfulChanges = truncatedChanges,
                          !.truncated = Len(truncatedChanges) < Len(file.meaningfulChanges)],
              tokens |-> tokens + fileTokens]

\* Object.values(categories).flat()
allFilesOf(categories) ==
    LET bucket(c) == categories[c]
    IN  FlatMap(categoryKeys, bucket)

sumField(categories, field) ==
    LET get(f) == f[field]
    IN  SumOf(allFilesOf(categories), get)

calculateStats(categories, originalCount) ==
    LET allFiles == allFilesOf(categories)
        isTruncated(f) == f.truncated
        changesOf(f) == f.meaningfulChanges
    IN  [totalFiles |-> originalCount,
         processedFiles |-> Len(allFiles),
         skippedFiles |-> originalCount - Len(allFiles),
         truncatedFiles |-> Len(Filter(allFiles, isTruncated)),
         estimatedTokens |-> estimateTokens(FlatMap(allFiles, changesOf)),
         categoryCounts |-> [c \in FileCategory |-> Len(categories[c])]]

\* the highlights without the cap of 5
extractHighlightsUncapped(fs) ==
    LET firstTwo(f) == Slice0(f.meaningfulChanges, 2)
        isAdded(c) == c.type = "added"
        picked == Filter(FlatMap(fs, firstTwo), isAdded)
    IN  [i \in 1..Len(picked) |-> picked[i].content]

extractHighlights(fs) ==
    LET firstTwo(f) == Slice0(f.meaningfulChanges, 2)
        isAdded(c) == c.type = "added"
        picked == Slice0(Filter(FlatMap(fs, firstTwo), isAdded), 5)
    IN  [i \in 1..Len(picked) |-> picked[i].content]

detectBreakingChanges(fs) ==
    LET changesOf(f) == f.meaningfulChanges
        all == FlatMap(fs, changesOf)
        content == Join([i \in 1..Len(all) |-> ToLowerCase(all[i].content)], "\n")
    IN  IncludesAny(content, {"breaking", "deprecated", "removed", "migration required"})

\* the CategorySummary pushed for category cat and the selected files fs
CategorySummaryOf(cat, fs) ==
    [category |-> cat,
     files |-> [i \in 1..Len(fs) |-> fs[i].filename],
     highlights |-> extractHighlights(fs),
     hasBreakingChanges |-> detectBreakingChanges(fs),
     changeTypes |-> Distinct([i \in 1..Len(fs) |-> fs[i].changeType])]

\* the summaries in the order of Object.entries, without the sort
buildPRRelevantSummaryUnsorted(categories) ==
    LET notLow(f) == f.importance # "low"
        entry(cat) ==
            LET highPriorityFiles == Filter(categories[cat], notLow)
            IN  IF Len(categories[cat]) = 0 THEN <<>>
                ELSE IF Len(highPriorityFiles) = 0 THEN <<>>
                ELSE <<CategorySummaryOf(cat, highPriorityFiles)>>
    IN  FlatMap(categoryKeys, entry)

buildPRRelevantSummary(categories) ==
    LET notLow(f) == f.importance # "low"
        entry(cat) ==
            LET highPriorityFiles == Filter(categories[cat], notLow)
            IN  IF Len(categories[cat]) = 0 THEN <<>>
                ELSE IF Len(highPriorityFiles) = 0 THEN <<>>
                ELSE <<CategorySummaryOf(cat, highPriorityFiles)>>
        negPriority(e) == 0 - CATEGORY_PRIORITY[e.category]
    IN  SortBy(FlatMap(categoryKeys, entry), negPriority)

filterSummaries(categories, relevantCategories, relevantTypes) ==
    LET relevant(f) == f.changeType \in relevantTypes
        entry(cat) ==
            LET fs == Filter(categories[cat], relevant)
            IN  IF Len(fs) > 0 THEN <<CategorySummaryOf(cat, fs)>> ELSE <<>>
    IN  FlatMap(relevantCategories, entry)

\* every category and every change type taken as relevant
buildReadmeRelevantSummaryAll(categories) ==
    filterSummaries(categories, categoryKeys, ChangeType)

buildReadmeRelevantSummary(categories) ==
    filterSummaries(categories, <<"backend", "frontend", "config">>, {"feature", "fix"})

buildADRRelevantSummary(categories) ==
    LET trigger(f) ==
            \/ f.importance = "high"
            \/ ADR_TRIGGER_PATTERNS(f.filename)
            \/ f.additions > 100
        entry(cat) ==
            LET fs == Filter(categories[cat], trigger)
            IN  IF Len(fs) > 0 THEN <<CategorySummaryOf(cat, fs)>> ELSE <<>>
    IN  FlatMap(<<"infra", "config", "backend">>, entry)

\* the parts array of buildLegacySummary, before parts.join
legacyParts(categories) ==
    LET fileParts(file) ==
            LET shown == Slice0(file.meaningfulChanges, 5)
                changes == Join([i \in 1..Len(shown) |->
                                   "  " \o (IF shown[i].type = "added" THEN "+" ELSE "-")
                                        \o " " \o shown[i].content], "\n")
            IN  <<"- " \o file.filename>>
                  \o (IF changes # "" THEN <<changes>> ELSE <<>>)
                  \o (IF file.truncated
                      THEN <<"  ... (+" \o NumberToString(file.originalLineCount - 5)
                               \o " lines)">>
                      ELSE <<>>)
        catParts(cat) ==
            IF Len(categories[cat]) = 0 THEN <<>>
            ELSE <<"### " \o CATEGORY_LABELS[cat]>> \o FlatMap(categories[cat], fileParts)
    IN  FlatMap(categoryKeys, catParts)

buildLegacySummary(categories) == Join(legacyParts(categories), "\n\n")

\* Step 5
buildOutput(categories, title, originalFileCount) ==
    LET stats == calculateStats(categories, originalFileCount)
    IN  [metadata |-> [prTitle |-> title,
                       totalAdditions |-> sumField(categories, "additions"),
                       totalDeletions |-> sumField(categories, "deletions"),
                       fileCount |-> stats.processedFiles,
                       stats |-> stats],
         categories |-> categories,
         summary |-> [prRelevant |-> buildPRRelevantSummary(categories),
                      readmeRelevant |-> buildReadmeRelevantSummary(categories),
                      adrRelevant |-> buildADRRelevantSummary(categories)],
         legacySummary |-> buildLegacySummary(categories)]

(***************************************************************************)
(* Inputs: the FileDiff records process() is called with                   *)
(***************************************************************************)

\* the longest list of files given to process()
MaxFiles == 2

FileDiffOf(name, st, adds, dels, p) ==
    [filename |-> name, status |-> st, additions |-> adds, deletions |-> dels,
     patch |-> p]

\* n copies of line, one per patch line
Lines(line, n) == Join([i \in 1..n |-> line], "\n")
\* n copies of s, concatenated
Repeat(s, n) == Join([i \in 1..n |-> s], "")

\* 60 added lines, one of which calls applyFix()
FLogin ==
    FileDiffOf("src/auth/login.ts", "modified", 60, 0,
        Some("@@ -1,3 +1,63 @@\n import { db } from './db';\n"
             \o Lines("+audit(u);", 30) \o "\n+  applyFix(u);\n"
             \o Lines("+touch(s);", 29)))

\* 60 added lines, "fix" only in a comment line
FLoginComment ==
    FileDiffOf("src/auth/login.ts", "modified", 60, 0,
        Some("@@ -1,3 +1,63 @@\n import { db } from './db';\n"
             \o Lines("+audit(u);", 30) \o "\n+  // fix the redirect\n"
             \o Lines("+touch(s);", 29)))

\* a new file of 5 lines of prose, one of them with the word fix
FReadme ==
    FileDiffOf("README.md", "added", 5, 0,
        Some("@@ -0,0 +1,5 @@\n+Install with npm.\n+Run the server.\n+Open the page.\n"
             \o "+Set the token to fix the login.\n+Read the log."))

\* 5 added lines: headings, bullets and a blank line
FReadmeHeadings ==
    FileDiffOf("README.md", "modified", 5, 0,
        Some("@@ -1,2 +1,7 @@\n+# diff-note\n+## Usage\n+* install\n+* run\n+"))

FLock ==
    FileDiffOf("package-lock.json", "modified", 40, 12,
        Some("@@ -5,3 +5,4 @@\n-    \"version\": \"1.0.0\",\n+    \"version\": \"1.0.1\",\n"
             \o "+    \"resolved\": \"https://registry/x\","))

\* matches a backend pattern (/api/) and a test pattern (.test.ts)
FApiTest ==
    FileDiffOf("src/api/users.test.ts", "modified", 2, 1,
        Some("@@ -7,4 +7,5 @@ describe('users')\n   it('lists users', () => {\n"
             \o "-    expect(list()).toEqual([]);\n+    expect(list()).toHaveLength(0);\n"
             \o "+    expect(list()).not.toBeNull();\n   });"))

\* a patch of 2000 characters: 19 added lines of 100 characters each, then a
\* context line
FBigTest ==
    FileDiffOf("tests/big.test.ts", "modified", 19, 0,
        Some("@@ -1,1 +2,20 @@\n" \o Lines("+" \o Repeat("expect(1);", 10), 19)
             \o "\n " \o Repeat("}", 44)))

\* a patch of 2000 characters: a long context line and one added line; the
\* path matches a test pattern and contains auth
FAuthTest ==
    FileDiffOf("tests/auth.test.ts", "modified", 1, 0,
        Some("@@ -1,1 +1,2 @@\n " \o Repeat("describe('auth', () => { ", 78)
             \o "\n+expect(login(u, p)).toBe(true);"))

\* three long changes under a long context line, then seven short ones
FUnevenTest ==
    FileDiffOf("tests/uneven.spec.ts", "modified", 10, 0,
        Some("@@ -1,4 +1,14 @@\n " \o Repeat("describe('suite', () => { ", 8) \o "\n"
             \o Lines("+" \o Repeat("expect(2);", 11), 3) \o "\n }\n"
             \o Lines("+ok()", 7)))

\* a pure rename: nothing added, nothing deleted, no patch; the path matches
\* a test pattern (^tests/) and a config pattern (.config.ts)
FRenamed == FileDiffOf("tests/jest.config.ts", "renamed", 0, 0, Undefined)

\* a new file, with the word fix in its lines
FMakefile ==
    FileDiffOf("Makefile", "added", 2, 0,
        Some("@@ -0,0 +1,2 @@\n+lint-fix:\n+\teslint --fix ."))

\* 18 added lines of 100 characters, 12 under a context line of 150
\* characters and 6 under one of 200: 4800 characters, 1200 tokens against
\* the backend budget of 1000, an average of 66.66... tokens a change
FWideApi ==
    FileDiffOf("src/api/report.ts", "modified", 18, 0,
        Some("@@ -1,2 +1,20 @@\n " \o Repeat("record(x);", 15) \o "\n"
             \o Lines("+" \o Repeat("record(y);", 10), 12)
             \o "\n " \o Repeat("record(z);", 20) \o "\n"
             \o Lines("+" \o Repeat("record(y);", 10), 6)))

FilePool ==
    {FLogin, FLoginComment, FReadme, FReadmeHeadings, FLock, FApiTest,
     FBigTest, FAuthTest, FUnevenTest, FRenamed, FMakefile, FWideApi}

PrTitles == {"Update login flow"}

\* every list of at most MaxFiles files of the pool: a pull request lists a
\* path once
Inputs ==
    {fs \in UNION {[1..n -> FilePool] : n \in 0..MaxFiles} :
        \A i, j \in 1..Len(fs) : fs[i].filename = fs[j].filename => i = j}

(***************************************************************************)
(* process(files, prTitle) as a state machine                              *)
(***************************************************************************)

VARIABLES
    files,            \* the argument files
    prTitle,          \* the argument prTitle
    pc,               \* "idle", "truncating" or "done"
    enhancedFiles,    \* enhancedFiles of process (Step 2)
    categorized,      \* categorized of process (Step 3), the argument of applyTruncation
    result,           \* result of applyTruncation
    catIdx,           \* position of the for loop of applyTruncation in orderedCategories
    fileIdx,          \* position of the map callback in the bucket
    categoryTokens,   \* categoryTokens of applyTruncation
    out,              \* the StructuredDiffOutput returned, if any
    prevOut           \* what the previous call on the same arguments returned, if any

vars == <<files, prTitle, pc, enhancedFiles, categorized, result, catIdx, fileIdx,
          categoryTokens, out, prevOut>>

EmptyCategories == [c \in FileCategory |-> <<>>]

\* the webhook handler (api/webhook.ts) and what it calls
VARIABLES
    req,              \* the request: method, signature, event and payload
    hpc,              \* the await the handler is at
    res,              \* the status of the response sent, 0 before
    dbRepo,           \* the row of the repository in the table repositories, if any
    repoData,         \* repoData of processPullRequest
    legacyDiff,       \* legacyDiff of processPullRequest
    skipCheck,        \* skipCheck of processPullRequest
    llmCalls,         \* calls of llm.generatePRSummaryFromStructured
    comments,         \* the comments posted to the pull request
    recorded          \* recordPRProcessed was called

whVars == <<req, hpc, res, dbRepo, repoData, legacyDiff, skipCheck, llmCalls,
            comments, recorded>>

\* no request is being handled
NoRequest ==
    [method |-> "", signatureRejected |-> FALSE, event |-> "", action |-> "",
     installationId |-> FALSE, anthropicKey |-> FALSE, labels |-> <<>>,
     title |-> "", prFiles |-> <<>>]

NoDiff == [files |-> <<>>, totalAdditions |-> 0, totalDeletions |-> 0]

WebhookAtRest ==
    /\ req = NoRequest
    /\ hpc = "none"
    /\ res = 0
    /\ dbRepo = Undefined
    /\ repoData = Undefined
    /\ legacyDiff = NoDiff
    /\ skipCheck = Undefined
    /\ llmCalls = 0
    /\ comments = <<>>
    /\ recorded = FALSE

\* concurrent deliveries of pull_request events of one repository,
\* and the rows of the database they read and write
VARIABLES
    deliveries,       \* of every delivery: its position in processPullRequest,
                      \* its pull request, and the locals of its calls
    processedRows,    \* the commits recordPRProcessed has recorded
    usageRow,         \* pr_count of the row of usage_monthly of the month, if any
    rpcAvailable,     \* the database has the function increment_usage
    repoPlan,         \* plan of the row of repositories
    summaryComments,  \* of every commit: the summary comments posted for it
    limitComments,    \* the notifications of the usage limit posted
    allowedCalls      \* the calls of checkAndIncrementUsage of the month that
                      \* returned allowed: true

dvVars == <<deliveries, processedRows, usageRow, rpcAvailable, repoPlan,
            summaryComments, limitComments, allowedCalls>>

\* no delivery is being handled
DeliveriesAtRest ==
    /\ deliveries = <<>>
    /\ processedRows = {}
    /\ usageRow = Undefined
    /\ rpcAvailable = FALSE
    /\ repoPlan = ""
    /\ summaryComments = <<>>
    /\ limitComments = 0
    /\ allowedCalls = 0

\* the counter is a field of the instance that no call resets
categoryTokensKept == categoryTokens

\* let categoryTokens = 0, at the start of each category
InitialCategoryTokens == 0

Init ==
    /\ files \in Inputs
    /\ prTitle \in PrTitles
    /\ pc = "idle"
    /\ enhancedFiles = <<>>
    /\ categorized = EmptyCategories
    /\ result = EmptyCategories
    /\ catIdx = 0
    /\ fileIdx = 0
    /\ categoryTokens = 0
    /\ out = Undefined
    /\ prevOut = Undefined
    /\ WebhookAtRest
    /\ DeliveriesAtRest

\* process(), Steps 1 to 4, up to the first category of applyTruncation
Start ==
    /\ pc = "idle"
    /\ LET filteredFiles == filterSkippedFiles(files)
       IN  enhancedFiles' =
               [i \in 1..Len(filteredFiles) |-> enhanceFileDiff(filteredFiles[i])]
    /\ LET meaningful(f) == ~f.isFormattingOnly
           meaningfulFiles == Filter(enhancedFiles', meaningful)
       IN  categorized' = categorizeFiles(meaningfulFiles)
    /\ result' = categorized'
    /\ catIdx' = 1
    /\ fileIdx' = 1
    /\ categoryTokens' = InitialCategoryTokens
    /\ pc' = "truncating"
    /\ UNCHANGED <<files, prTitle, out, prevOut>>
    /\ UNCHANGED whVars
    /\ UNCHANGED dvVars

\* one call of the map callback of applyTruncation
TruncateFile ==
    /\ pc = "truncating"
    /\ catIdx <= Len(orderedCategories)
    /\ LET category == orderedCategories[catIdx]
       IN  /\ fileIdx <= Len(categorized[category])
           /\ LET r == truncateFile(categorized[category][fileIdx], category, categoryTokens)
              IN  /\ result' = [result EXCEPT ![category][fileIdx] = r.file]
                  /\ categoryTokens' = r.tokens
    /\ fileIdx' = fileIdx + 1
    /\ UNCHANGED <<files, prTitle, pc, enhancedFiles, categorized, catIdx, out, prevOut>>
    /\ UNCHANGED whVars
    /\ UNCHANGED dvVars

\* the for loop of applyTruncation moves to the next category
NextCategory ==
    /\ pc = "truncating"
    /\ catIdx <= Len(orderedCategories)
    /\ fileIdx > Len(categorized[orderedCategories[catIdx]])
    /\ catIdx' = catIdx + 1
    /\ fileIdx' = 1
    /\ categoryTokens' = InitialCategoryTokens
    /\ UNCHANGED <<files, prTitle, pc, enhancedFiles, categorized, result, out, prevOut>>
    /\ UNCHANGED whVars
    /\ UNCHANGED dvVars

\* process(), Step 6: buildOutput and return
BuildOutput ==
    /\ pc = "truncating"
    /\ catIdx > Len(orderedCategories)
    /\ out' = Some(buildOutput(result, prTitle, Len(files)))
    /\ pc' = "done"
    /\ UNCHANGED <<files, prTitle, enhancedFiles, categorized, result, catIdx, fileIdx,
                   categoryTokens, prevOut>>
    /\ UNCHANGED whVars
    /\ UNCHANGED dvVars

\* the caller calls process() once more with the same arguments
CallAgain ==
    /\ pc = "done"
    /\ prevOut = Undefined
    /\ prevOut' = out
    /\ out' = Undefined
    /\ pc' = "idle"
    /\ UNCHANGED <<files, prTitle, enhancedFiles, categorized, result, catIdx, fileIdx,
                   categoryTokens>>
    /\ UNCHANGED whVars
    /\ UNCHANGED dvVars

Next == Start \/ TruncateFile \/ NextCategory \/ BuildOutput \/ CallAgain

Spec == Init /\ [][Next]_vars

(***************************************************************************)
(* The webhook: handler and processPullRequest of api/webhook.ts,          *)
(* shouldSkipPR of skip.ts, getPRDiff of github.ts                         *)
(***************************************************************************)

\* skip.ts
DOCS_PATTERNS(f) ==
    \/ EndsWith(f, ".md")
    \/ EndsWith(f, ".txt")
    \/ StartsWith(f, "docs/")
    \/ StartsWithAny(ToLowerCase(f), {"readme", "changelog", "license"})

TEST_PATTERNS(f) ==
    \/ EndsWithAny(f, DotWordJs({"test"}))
    \/ EndsWithAny(f, DotWordJs({"spec"}))
    \/ StartsWith(f, "test/")
    \/ StartsWith(f, "tests/")
    \/ Includes(f, "__tests__/")

isDocsFile(filename) == DOCS_PATTERNS(filename)
isTestFile(filename) == TEST_PATTERNS(filename)

\* shouldSkipPR without the rule of the changes to documentation or tests only
shouldSkipPRNoDocsOrTests(pr, diff) ==
    LET totalChanges == diff.totalAdditions + diff.totalDeletions
    IN  IF \E i \in 1..Len(pr.labels) : pr.labels[i] = "skip-doc"
        THEN [shouldSkip |-> TRUE, reason |-> "skip-doc label"]
        ELSE IF totalChanges < 10
        THEN [shouldSkip |-> TRUE, reason |-> "fewer than 10 changed lines"]
        ELSE IF Len(diff.files) = 0
        THEN [shouldSkip |-> TRUE, reason |-> "no changed file"]
        ELSE [shouldSkip |-> FALSE, reason |-> ""]

shouldSkipPR(pr, diff) ==
    LET totalChanges == diff.totalAdditions + diff.totalDeletions
        allDocsOrTests ==
            \A i \in 1..Len(diff.files) :
                isDocsFile(diff.files[i].filename) \/ isTestFile(diff.files[i].filename)
    IN  IF \E i \in 1..Len(pr.labels) : pr.labels[i] = "skip-doc"
        THEN [shouldSkip |-> TRUE, reason |-> "skip-doc label"]
        ELSE IF totalChanges < 10
        THEN [shouldSkip |-> TRUE, reason |-> "fewer than 10 changed lines"]
        ELSE IF Len(diff.files) = 0
        THEN [shouldSkip |-> TRUE, reason |-> "no changed file"]
        ELSE IF allDocsOrTests
        THEN [shouldSkip |-> TRUE, reason |-> "docs or tests only"]
        ELSE [shouldSkip |-> FALSE, reason |-> ""]

\* github.ts: the skip patterns of the legacy diff
LEGACY_SKIP_PATTERNS(f) ==
    EndsWithAny(f, {"package-lock.json", "yarn.lock", "pnpm-lock.yaml", "Gemfile.lock",
                    "Cargo.lock", "poetry.lock", "composer.lock"})

shouldSkipFile(filename) == LEGACY_SKIP_PATTERNS(filename)

\* github.ts: getPRDiff, for the files that pulls.listFiles returns
getPRDiff(listed) ==
    LET kept(file) == ~shouldSkipFile(file.filename)
        fs == SelectSeq(listed, kept)
    IN  [files |-> fs,
         totalAdditions |-> SumOf(fs, LAMBDA f : f.additions),
         totalDeletions |-> SumOf(fs, LAMBDA f : f.deletions)]

\* the longest list of files of a pull request
MaxPrFiles == 2

\* the files of pull requests: name, added and deleted lines
PrFile(name, adds, dels) == [filename |-> name, additions |-> adds, deletions |-> dels]

PrFilePool ==
    {PrFile("src/auth/login.ts", 60, 0), PrFile("src/index.ts", 3, 2),
     PrFile("tests/big.test.ts", 19, 0), PrFile("docs/guide.md", 12, 3),
     PrFile("package-lock.json", 40, 12)}

PrFileLists ==
    {fs \in UNION {[1..n -> PrFilePool] : n \in 0..MaxPrFiles} :
        \A i, j \in 1..Len(fs) : fs[i].filename = fs[j].filename => i = j}

\* the requests delivered to the handler
Requests ==
    [method : {"POST", "GET"},
     signatureRejected : BOOLEAN,
     event : {"pull_request", "ping"},
     action : {"opened", "synchronize", "reopened", "closed"},
     installationId : BOOLEAN,
     anthropicKey : BOOLEAN,
     labels : {<<>>, <<"no-ai-review">>, <<"skip-doc">>},
     title : {"Update login flow", "WIP: login flow", "Fix typo [skip ci]"},
     prFiles : PrFileLists]

ProcessorAtRest ==
    /\ files = <<>>
    /\ prTitle = ""
    /\ pc = "idle"
    /\ enhancedFiles = <<>>
    /\ categorized = EmptyCategories
    /\ result = EmptyCategories
    /\ catIdx = 0
    /\ fileIdx = 0
    /\ categoryTokens = 0
    /\ out = Undefined
    /\ prevOut = Undefined

WebhookInit ==
    /\ ProcessorAtRest
    /\ req \in Requests
    /\ hpc = "handler"
    /\ res = 0
    /\ dbRepo \in {Undefined, Some("free"), Some("pro")}
    /\ repoData = Undefined
    /\ legacyDiff = NoDiff
    /\ skipCheck = Undefined
    /\ llmCalls = 0
    /\ comments = <<>>
    /\ recorded = FALSE
    /\ DeliveriesAtRest

\* the handler sends the response
Respond(status) ==
    /\ res' = status
    /\ hpc' = "responded"

\* handler, up to the first await of processPullRequest
HandleRequest ==
    /\ hpc = "handler"
    /\ IF req.method # "POST" THEN Respond(405)
       ELSE IF req.signatureRejected THEN Respond(401)
       ELSE IF req.event # "pull_request" THEN Respond(200)
       ELSE IF req.action \notin {"opened", "synchronize", "reopened"} THEN Respond(200)
       ELSE IF ~req.installationId THEN Respond(500)
       ELSE IF ~req.anthropicKey THEN Respond(500)
       ELSE res' = res /\ hpc' = "ensureRepositoryExists"
    /\ UNCHANGED <<req, dbRepo, repoData, legacyDiff, skipCheck, llmCalls, comments,
                   recorded>>
    /\ UNCHANGED vars
    /\ UNCHANGED dvVars

\* db.ts: ensureRepositoryExists; an insert that fails is logged only
EnsureRepositoryExists ==
    /\ hpc = "ensureRepositoryExists"
    /\ IF dbRepo = Undefined
       THEN dbRepo' \in {Undefined, Some("free")}
       ELSE dbRepo' = dbRepo
    /\ hpc' = "getRepositoryByGitHubId"
    /\ UNCHANGED <<req, res, repoData, legacyDiff, skipCheck, llmCalls, comments,
                   recorded>>
    /\ UNCHANGED vars
    /\ UNCHANGED dvVars

\* db.ts: getRepositoryByGitHubId
GetRepository ==
    /\ hpc = "getRepositoryByGitHubId"
    /\ repoData' = dbRepo
    /\ hpc' = IF dbRepo # Undefined THEN "isAlreadyProcessed" ELSE "getPRDiffStructured"
    /\ UNCHANGED <<req, res, dbRepo, legacyDiff, skipCheck, llmCalls, comments,
                   recorded>>
    /\ UNCHANGED vars
    /\ UNCHANGED dvVars

\* the idempotency check: the answer of the database
CheckProcessed ==
    /\ hpc = "isAlreadyProcessed"
    /\ \E alreadyProcessed \in BOOLEAN :
          IF alreadyProcessed THEN Respond(200)
          ELSE res' = res /\ hpc' = "checkAndIncrementUsage"
    /\ UNCHANGED <<req, dbRepo, repoData, legacyDiff, skipCheck, llmCalls, comments,
                   recorded>>
    /\ UNCHANGED vars
    /\ UNCHANGED dvVars

\* the usage check: the answer of checkAndIncrementUsage
CheckUsage ==
    /\ hpc = "checkAndIncrementUsage"
    /\ \E allowed \in BOOLEAN :
          hpc' = IF allowed THEN "getPRDiffStructured" ELSE "postLimitComment"
    /\ UNCHANGED <<req, res, dbRepo, repoData, legacyDiff, skipCheck, llmCalls,
                   comments, recorded>>
    /\ UNCHANGED vars
    /\ UNCHANGED dvVars

\* the notification of the usage limit
PostLimitComment ==
    /\ hpc = "postLimitComment"
    /\ comments' = Append(comments, "limit")
    /\ Respond(200)
    /\ UNCHANGED <<req, dbRepo, repoData, legacyDiff, skipCheck, llmCalls, recorded>>
    /\ UNCHANGED vars
    /\ UNCHANGED dvVars

\* github.getPRDiffStructured
GetStructuredDiff ==
    /\ hpc = "getPRDiffStructured"
    /\ hpc' = "getPRDiff"
    /\ UNCHANGED <<req, res, dbRepo, repoData, legacyDiff, skipCheck, llmCalls,
                   comments, recorded>>
    /\ UNCHANGED vars
    /\ UNCHANGED dvVars

\* github.getPRDiff, then shouldSkipPR
GetLegacyDiff ==
    /\ hpc = "getPRDiff"
    /\ LET diff == getPRDiff(req.prFiles)
           pr == [title |-> req.title, labels |-> req.labels]
           check == shouldSkipPR(pr, diff)
       IN  /\ legacyDiff' = diff
           /\ skipCheck' = Some(check)
           /\ IF check.shouldSkip THEN Respond(200)
              ELSE res' = res /\ hpc' = "generatePRSummaryFromStructured"
    /\ UNCHANGED <<req, dbRepo, repoData, llmCalls, comments, recorded>>
    /\ UNCHANGED vars
    /\ UNCHANGED dvVars

\* llm.generatePRSummaryFromStructured
GenerateSummary ==
    /\ hpc = "generatePRSummaryFromStructured"
    /\ llmCalls' = llmCalls + 1
    /\ hpc' = "postPRComment"
    /\ UNCHANGED <<req, res, dbRepo, repoData, legacyDiff, skipCheck, comments,
                   recorded>>
    /\ UNCHANGED vars
    /\ UNCHANGED dvVars

\* github.postPRComment with the summary
PostSummaryComment ==
    /\ hpc = "postPRComment"
    /\ comments' = Append(comments, "summary")
    /\ IF repoData # Undefined THEN res' = res /\ hpc' = "recordPRProcessed"
       ELSE Respond(200)
    /\ UNCHANGED <<req, dbRepo, repoData, legacyDiff, skipCheck, llmCalls, recorded>>
    /\ UNCHANGED vars
    /\ UNCHANGED dvVars

\* recordPRProcessed, then the response
RecordProcessed ==
    /\ hpc = "recordPRProcessed"
    /\ recorded' = TRUE
    /\ Respond(200)
    /\ UNCHANGED <<req, dbRepo, repoData, legacyDiff, skipCheck, llmCalls, comments>>
    /\ UNCHANGED vars
    /\ UNCHANGED dvVars

\* an await of processPullRequest rejects: the catch of handler answers 500
Throw ==
    /\ hpc \in {"getPRDiffStructured", "getPRDiff", "generatePRSummaryFromStructured",
                "postPRComment", "postLimitComment", "recordPRProcessed"}
    /\ Respond(500)
    /\ UNCHANGED <<req, dbRepo, repoData, legacyDiff, skipCheck, llmCalls, comments,
                   recorded>>
    /\ UNCHANGED vars
    /\ UNCHANGED dvVars

WebhookNext ==
    \/ HandleRequest
    \/ EnsureRepositoryExists
    \/ GetRepository
    \/ CheckProcessed
    \/ CheckUsage
    \/ PostLimitComment
    \/ GetStructuredDiff
    \/ GetLegacyDiff
    \/ GenerateSummary
    \/ PostSummaryComment
    \/ RecordProcessed
    \/ Throw

WebhookSpec == WebhookInit /\ [][WebhookNext]_whVars

(***************************************************************************)
(* api/webhook.ts and db.ts: deliveries of pull_request events of one      *)
(* repository handled at the same time. Every delivery runs                *)
(* processPullRequest in an invocation of its own; the invocations share   *)
(* the rows of the database and the comments of the pull requests, and     *)
(* they interleave at every await.                                         *)
(***************************************************************************)

\* the deliveries handled at the same time
Deliveries == 2

\* db.ts: checkAndIncrementUsage
FREE_PLAN_LIMIT == 10

\* payload.pull_request of the deliveries, with the files pulls.listFiles returns
DeliveredPullRequests ==
    {[number |-> 7, sha |-> "a1f3", title |-> "Update login flow", labels |-> <<>>,
      prFiles |-> <<PrFile("src/auth/login.ts", 60, 0)>>],
     [number |-> 8, sha |-> "c4d2", title |-> "Tidy index", labels |-> <<>>,
      prFiles |-> <<PrFile("src/index.ts", 3, 2)>>]}

\* pullNumber and commitSha
CommitOf(pr) == <<pr.number, pr.sha>>

Commits == {CommitOf(pr) : pr \in DeliveredPullRequests}

\* a delivery that processPullRequest has not started to handle: repoData is
\* the row of the repository, and the locals of checkAndIncrementUsage are unset
NewDelivery(pr) ==
    [pc |-> "isAlreadyProcessed", pr |-> pr, currentCount |-> 0,
     usageCheck |-> Undefined, posted |-> FALSE]

DeliveryInit ==
    /\ ProcessorAtRest
    /\ WebhookAtRest
    /\ deliveries \in [1..Deliveries -> {NewDelivery(pr) : pr \in DeliveredPullRequests}]
    /\ processedRows = {}
    /\ usageRow \in {Undefined, Some(FREE_PLAN_LIMIT - 1), Some(FREE_PLAN_LIMIT)}
    /\ rpcAvailable \in BOOLEAN
    /\ repoPlan \in {"free", "pro"}
    /\ summaryComments = [c \in Commits |-> 0]
    /\ limitComments = 0
    /\ allowedCalls = IF usageRow = Undefined THEN 0 ELSE usageRow[1]

\* the delivery goes on to the given await, or returns
GoTo(d, next) == deliveries' = [deliveries EXCEPT ![d].pc = next]

\* const alreadyProcessed = await isAlreadyProcessed(...); if (alreadyProcessed) return
IsAlreadyProcessed(d) ==
    /\ deliveries[d].pc = "isAlreadyProcessed"
    /\ LET alreadyProcessed == CommitOf(deliveries[d].pr) \in processedRows
       IN  GoTo(d, IF alreadyProcessed THEN "returned" ELSE "selectUsage")
    /\ UNCHANGED <<processedRows, usageRow, rpcAvailable, repoPlan, summaryComments,
                   limitComments, allowedCalls>>
    /\ UNCHANGED vars
    /\ UNCHANGED whVars

\* checkAndIncrementUsage: the select of pr_count, and the check of the limit
\* when the row of the month exists
SelectUsage(d) ==
    /\ deliveries[d].pc = "selectUsage"
    /\ LET usage == usageRow
           currentCount == IF usage # Undefined THEN usage[1] ELSE 0
       IN  deliveries' =
               [deliveries EXCEPT
                   ![d].currentCount = currentCount,
                   ![d].usageCheck =
                       IF usage # Undefined /\ repoPlan = "free"
                          /\ currentCount >= FREE_PLAN_LIMIT
                       THEN Some([allowed |-> FALSE])
                       ELSE Undefined,
                   ![d].pc =
                       IF usage = Undefined THEN "insertUsage"
                       ELSE IF repoPlan = "free" /\ currentCount >= FREE_PLAN_LIMIT
                       THEN "postLimitComment"
                       ELSE "incrementUsage"]
    /\ UNCHANGED <<processedRows, usageRow, rpcAvailable, repoPlan, summaryComments,
                   limitComments, allowedCalls>>
    /\ UNCHANGED vars
    /\ UNCHANGED whVars

\* checkAndIncrementUsage: the insert of the row of the month with pr_count 0;
\* an insert that finds the row is an error, which is only logged. currentCount
\* is 0, which is under the limit
InsertUsage(d) ==
    /\ deliveries[d].pc = "insertUsage"
    /\ usageRow' = IF usageRow = Undefined THEN Some(0) ELSE usageRow
    /\ GoTo(d, "incrementUsage")
    /\ UNCHANGED <<processedRows, rpcAvailable, repoPlan, summaryComments,
                   limitComments, allowedCalls>>
    /\ UNCHANGED vars
    /\ UNCHANGED whVars

\* checkAndIncrementUsage: db.rpc('increment_usage'), which adds one to pr_count
\* of the row; the call returns allowed: true, or goes on to the direct update
\* when the database has no such function
IncrementUsage(d) ==
    /\ deliveries[d].pc = "incrementUsage"
    /\ IF rpcAvailable
       THEN /\ usageRow' = IF usageRow # Undefined THEN Some(usageRow[1] + 1) ELSE usageRow
            /\ allowedCalls' = allowedCalls + 1
            /\ deliveries' = [deliveries EXCEPT ![d].usageCheck = Some([allowed |-> TRUE]),
                                                ![d].pc = "getPRDiff"]
       ELSE /\ GoTo(d, "updateUsage")
            /\ UNCHANGED <<usageRow, allowedCalls>>
    /\ UNCHANGED <<processedRows, rpcAvailable, repoPlan, summaryComments, limitComments>>
    /\ UNCHANGED vars
    /\ UNCHANGED whVars

\* checkAndIncrementUsage: update({ pr_count: currentCount + 1 }), and the
\* return of allowed: true
UpdateUsage(d) ==
    /\ deliveries[d].pc = "updateUsage"
    /\ usageRow' = IF usageRow # Undefined THEN Some(deliveries[d].currentCount + 1)
                   ELSE usageRow
    /\ allowedCalls' = allowedCalls + 1
    /\ deliveries' = [deliveries EXCEPT ![d].usageCheck = Some([allowed |-> TRUE]),
                                        ![d].pc = "getPRDiff"]
    /\ UNCHANGED <<processedRows, rpcAvailable, repoPlan, summaryComments, limitComments>>
    /\ UNCHANGED vars
    /\ UNCHANGED whVars

\* if (!usageCheck.allowed): the notification of the limit, and return
PostLimitNotification(d) ==
    /\ deliveries[d].pc = "postLimitComment"
    /\ limitComments' = limitComments + 1
    /\ GoTo(d, "returned")
    /\ UNCHANGED <<processedRows, usageRow, rpcAvailable, repoPlan, summaryComments,
                   allowedCalls>>
    /\ UNCHANGED vars
    /\ UNCHANGED whVars

\* github.getPRDiffStructured, github.getPRDiff and shouldSkipPR
GetDiffs(d) ==
    /\ deliveries[d].pc = "getPRDiff"
    /\ LET pr == deliveries[d].pr
           skipCheckOfPr == shouldSkipPR(pr, getPRDiff(pr.prFiles))
       IN  GoTo(d, IF skipCheckOfPr.shouldSkip THEN "returned"
                   ELSE "generatePRSummaryFromStructured")
    /\ UNCHANGED <<processedRows, usageRow, rpcAvailable, repoPlan, summaryComments,
                   limitComments, allowedCalls>>
    /\ UNCHANGED vars
    /\ UNCHANGED whVars

\* llm.generatePRSummaryFromStructured
GenerateDocs(d) ==
    /\ deliveries[d].pc = "generatePRSummaryFromStructured"
    /\ GoTo(d, "postPRComment")
    /\ UNCHANGED <<processedRows, usageRow, rpcAvailable, repoPlan, summaryComments,
                   limitComments, allowedCalls>>
    /\ UNCHANGED vars
    /\ UNCHANGED whVars

\* github.postPRComment of the summary
PostComment(d) ==
    /\ deliveries[d].pc = "postPRComment"
    /\ summaryComments' =
           [summaryComments EXCEPT ![CommitOf(deliveries[d].pr)] = @ + 1]
    /\ deliveries' = [deliveries EXCEPT ![d].posted = TRUE,
                                        ![d].pc = "recordPRProcessed"]
    /\ UNCHANGED <<processedRows, usageRow, rpcAvailable, repoPlan, limitComments,
                   allowedCalls>>
    /\ UNCHANGED vars
    /\ UNCHANGED whVars

\* await recordPRProcessed(repoData.id, pullNumber, commitSha)
RecordPRProcessed(d) ==
    /\ deliveries[d].pc = "recordPRProcessed"
    /\ processedRows' = processedRows \union {CommitOf(deliveries[d].pr)}
    /\ GoTo(d, "returned")
    /\ UNCHANGED <<usageRow, rpcAvailable, repoPlan, summaryComments, limitComments,
                   allowedCalls>>
    /\ UNCHANGED vars
    /\ UNCHANGED whVars

\* an await of a call to GitHub, to the model or to the database rejects:
\* processPullRequest throws and the handler answers 500
Reject(d) ==
    /\ deliveries[d].pc \in {"postLimitComment", "getPRDiff",
                             "generatePRSummaryFromStructured", "postPRComment",
                             "recordPRProcessed"}
    /\ GoTo(d, "thrown")
    /\ UNCHANGED <<processedRows, usageRow, rpcAvailable, repoPlan, summaryComments,
                   limitComments, allowedCalls>>
    /\ UNCHANGED vars
    /\ UNCHANGED whVars

DeliveryNext ==
    \/ \E d \in DOMAIN deliveries : IsAlreadyProcessed(d)
    \/ \E d \in DOMAIN deliveries : SelectUsage(d)
    \/ \E d \in DOMAIN deliveries : InsertUsage(d)
    \/ \E d \in DOMAIN deliveries : IncrementUsage(d)
    \/ \E d \in DOMAIN deliveries : UpdateUsage(d)
    \/ \E d \in DOMAIN deliveries : PostLimitNotification(d)
    \/ \E d \in DOMAIN deliveries : GetDiffs(d)
    \/ \E d \in DOMAIN deliveries : GenerateDocs(d)
    \/ \E d \in DOMAIN deliveries : PostComment(d)
    \/ \E d \in DOMAIN deliveries : RecordPRProcessed(d)
    \/ \E d \in DOMAIN deliveries : Reject(d)

DeliverySpec == DeliveryInit /\ [][DeliveryNext]_dvVars

(***************************************************************************)
(* Properties                                                              *)
(***************************************************************************)

Done == pc = "done"

\* the FileDiff part of an EnhancedFileDiff
AsFileDiff(e) ==
    [filename |-> e.filename, status |-> e.status, additions |-> e.additions,
     deletions |-> e.deletions, patch |-> e.patch]

\* the positions (category, index) of the output buckets that hold the file f
PlacesOf(cats, f) ==
    {<<c, i>> \in FileCategory \X (1..MaxFiles + 1) :
        i <= Len(cats[c]) /\ AsFileDiff(cats[c][i]) = f}

\* the input file is removed by Step 1 or by Step 3 of process()
SkippedByPattern(f) == SKIP_PATTERNS(f.filename)
FormattingOnly(f) == detectFormattingOnly(f, extractMeaningfulChanges(f))
Survives(f) == ~SkippedByPattern(f) /\ ~FormattingOnly(f)

\* C1: when process() has returned, the files of the seven buckets are exactly
\* the input files that match no skip pattern and are not formatting-only:
\* each of them is in the bucket of its detected category, once, and in no
\* other bucket, and the buckets hold nothing else.
C1_BucketsPartitionSurvivors ==
    Done =>
        LET cats == out[1].categories
        IN  /\ \A j \in 1..Len(files) :
                 PlacesOf(cats, files[j]) =
                    IF Survives(files[j])
                    THEN {p \in PlacesOf(cats, files[j]) :
                            p[1] = detectCategory(files[j].filename)}
                    ELSE {}
            /\ \A j \in 1..Len(files) :
                 Survives(files[j]) => Cardinality(PlacesOf(cats, files[j])) = 1
            /\ \A c \in FileCategory : \A i \in 1..Len(cats[c]) :
                 \E j \in 1..Len(files) : AsFileDiff(cats[c][i]) = files[j]

\* C1 witness: a call returned with one file kept, one file skipped by pattern
\* and buckets that are not all empty
C1_Witness ==
    /\ Done
    /\ \E j \in 1..Len(files) : SkippedByPattern(files[j])
    /\ \E j \in 1..Len(files) :
          /\ Survives(files[j])
          /\ Cardinality(PlacesOf(out[1].categories, files[j])) = 1

\* the block order the classifier is specified with
BlockOrder == <<"backend", "frontend", "infra", "test", "config", "docs">>

\* the blocks of BlockOrder with a pattern that matches the path
MatchingBlocks(filename) ==
    {k \in 1..Len(BlockOrder) : CATEGORY_PATTERNS(BlockOrder[k], filename)}

\* C2: a path that matches patterns of one or more blocks gets the category of
\* the matching block that is earliest in the order backend, frontend, infra,
\* test, config, docs.
C2_FirstMatchingBlockWins ==
    Done =>
        \A i \in 1..Len(enhancedFiles) :
            LET m == MatchingBlocks(enhancedFiles[i].filename)
            IN  m # {} => enhancedFiles[i].category = BlockOrder[Min(m)]

\* C2 witness: a path matching a backend pattern and a test pattern is backend,
\* and a path matching a test pattern and a config pattern is test
C2_Witness ==
    /\ Done
    /\ \E i \in 1..Len(enhancedFiles) :
          /\ {1, 4} \subseteq MatchingBlocks(enhancedFiles[i].filename)
          /\ enhancedFiles[i].category = "backend"
    /\ \E i \in 1..Len(enhancedFiles) :
          /\ MatchingBlocks(enhancedFiles[i].filename) = {4, 5}
          /\ enhancedFiles[i].category = "test"

\* the files of all output buckets, as (category, index) positions
OutPlaces(cats) ==
    {<<c, i>> \in FileCategory \X (1..MaxFiles + 1) : i <= Len(cats[c])}

\* C3: after budget allocation every file keeps at most originalLineCount
\* changes, and truncated is true exactly when it keeps fewer than that.
C3_TruncatedIffFewerChanges ==
    Done =>
        \A p \in OutPlaces(out[1].categories) :
            LET f == out[1].categories[p[1]][p[2]]
            IN  /\ Len(f.meaningfulChanges) <= f.originalLineCount
                /\ f.truncated <=> Len(f.meaningfulChanges) < f.originalLineCount

\* the estimated cost of the first i files of the output bucket of category c
CostUpTo(cats, c, i) ==
    LET cost(f) == estimateTokens(f.meaningfulChanges)
    IN  SumOf(SubSeq(cats[c], 1, i), cost)

\* the estimated cost of the line-limit-capped change list of a file of category c
CappedCost(f, c) == estimateTokens(Slice0(f.meaningfulChanges, CATEGORY_LINE_LIMITS[c]))

\* C4: in every category the estimated cost of the retained change lists goes
\* beyond the category budget at one file at most, by no more than the cost of
\* that file's line-limit-capped change list, and no later file adds to it.
C4_BoundedOvershoot ==
    Done =>
        \A c \in FileCategory :
            LET cats == out[1].categories
                n == Len(cats[c])
                budget == CATEGORY_TOKEN_BUDGET[c]
            IN  \A i \in 1..n :
                    CostUpTo(cats, c, i) > budget =>
                        /\ CostUpTo(cats, c, i) - budget <= CappedCost(categorized[c][i], c)
                           \/ CostUpTo(cats, c, i - 1) > budget
                        /\ CostUpTo(cats, c, n) = CostUpTo(cats, c, i)

\* C4 witness: a category whose retained changes cost more than its budget
C4_Witness ==
    /\ Done
    /\ \E c \in FileCategory :
          CostUpTo(out[1].categories, c, Len(out[1].categories[c]))
              > CATEGORY_TOKEN_BUDGET[c]

\* C5: a second call of process() with the same arguments returns what the
\* first call returned, and no step of process() changes its arguments.
C5_Deterministic ==
    /\ [](Done /\ prevOut # Undefined => out = prevOut)
    /\ [][files' = files /\ prTitle' = prTitle]_vars

\* C5 witness: the second call returned, with files truncated by the budget
C5_Witness ==
    /\ Done
    /\ prevOut # Undefined
    /\ out[1].metadata.stats.truncatedFiles > 0

\* the shape of a StructuredDiffOutput
IsStructuredDiffOutput(o) ==
    /\ DOMAIN o = {"metadata", "categories", "summary", "legacySummary"}
    /\ DOMAIN o.categories = FileCategory
    /\ \A c \in FileCategory : \A i \in 1..Len(o.categories[c]) :
          /\ o.categories[c][i].category = c
          /\ o.categories[c][i].changeType \in ChangeType
          /\ o.categories[c][i].importance \in ImportanceLevel
    /\ o.metadata.stats.totalFiles \in Nat
    /\ o.metadata.stats.processedFiles \in Nat
    /\ DOMAIN o.summary = {"prRelevant", "readmeRelevant", "adrRelevant"}
    /\ o.legacySummary \in STRING

\* the path matches no pattern of any block and has no source-file extension
Unrecognized(filename) ==
    /\ \A k \in 1..Len(BlockOrder) : ~CATEGORY_PATTERNS(BlockOrder[k], filename)
    /\ ~EndsWithAny(filename, {".js", ".jsx", ".ts", ".tsx"})

\* what Steps 1 to 3 have made of the input: enhanced files come from input
\* files, without a patch they have no changes, with an unrecognized path they
\* are of category other
EnhancedWithoutError ==
    pc # "idle" =>
        \A i \in 1..Len(enhancedFiles) :
            LET e == enhancedFiles[i]
            IN  /\ e.category \in FileCategory
                /\ (e.patch = Undefined \/ e.patch = Some("")) => e.meaningfulChanges = <<>>
                /\ Unrecognized(e.filename) => e.category = "other"

\* the number of steps a call of process() has left at most: Steps 1 to 4,
\* then one step per file and one per category of applyTruncation, then Step 6
StepsLeft ==
    IF pc = "idle" THEN Len(files) + Len(orderedCategories) + 2
    ELSE IF pc = "truncating"
    THEN 1 + SumOf([k \in 1..Len(orderedCategories) |->
                      IF k < catIdx THEN 0
                      ELSE IF k = catIdx
                      THEN 2 + Len(categorized[orderedCategories[k]]) - fileIdx
                      ELSE 1 + Len(categorized[orderedCategories[k]])],
                   LAMBDA n : n)
    ELSE 0

\* a call that has not returned is at a point from which the code goes on
StepPossible ==
    \/ pc = "idle"
    \/ /\ pc = "truncating"
       /\ catIdx >= 1
       /\ \/ catIdx > Len(orderedCategories)
          \/ fileIdx \in 1..(Len(categorized[orderedCategories[catIdx]]) + 1)

C7_NoFileWithoutChanges ==
    Done =>
        \A p \in OutPlaces(out[1].categories) :
            out[1].categories[p[1]][p[2]].originalLineCount > 0

\* the file names of the entries of a summary view
SummaryFiles(view) ==
    {view[i].files[j] : <<i, j>> \in
        {q \in (1..7) \X (1..MaxFiles + 1) :
            q[1] <= Len(view) /\ q[2] <= Len(view[q[1]].files)}}

\* the file names of the output buckets
BucketFiles(cats) ==
    {cats[p[1]][p[2]].filename : p \in OutPlaces(cats)}

\* C8: an input file whose path matches a skip pattern is in no bucket, in
\* none of the three summary views and not in the legacy text; it is counted
\* in skippedFiles, which is totalFiles - processedFiles, where totalFiles is
\* the number of input files.
C8_SkippedFilesAbsent ==
    Done =>
        LET o == out[1]
            stats == o.metadata.stats
            skipped == {j \in 1..Len(files) : SkippedByPattern(files[j])}
        IN  /\ \A j \in skipped :
                 /\ files[j].filename \notin BucketFiles(o.categories)
                 /\ files[j].filename \notin SummaryFiles(o.summary.prRelevant)
                 /\ files[j].filename \notin SummaryFiles(o.summary.readmeRelevant)
                 /\ files[j].filename \notin SummaryFiles(o.summary.adrRelevant)
                 /\ ~Includes(o.legacySummary, files[j].filename)
            /\ stats.totalFiles = Len(files)
            /\ stats.skippedFiles = stats.totalFiles - stats.processedFiles
            /\ stats.skippedFiles >= Cardinality(skipped)

\* C8 witness: a call returned for package-lock.json and a file that is kept
C8_Witness ==
    /\ Done
    /\ \E j \in 1..Len(files) : files[j].filename = "package-lock.json"
    /\ out[1].metadata.stats.skippedFiles = 1
    /\ out[1].metadata.stats.processedFiles = 1

\* the input is the single file src/auth/login.ts, modified, with 60 added
\* lines and no removed line
LoginScenario ==
    /\ Len(files) = 1
    /\ files[1].filename = "src/auth/login.ts"
    /\ files[1].status = "modified"
    /\ files[1].additions = 60
    /\ files[1].deletions = 0

\* an added line of the patch contains the text
AddedLineIncludes(file, text) ==
    /\ file.patch # Undefined
    /\ LET lines == Split(file.patch[1])
       IN  \E i \in 1..Len(lines) :
              StartsWith(lines[i], "+") /\ Includes(lines[i], text)

\* the enhanced file is backend, fix, high
BackendFixHigh(e) ==
    /\ e.category = "backend"
    /\ e.changeType = "fix"
    /\ e.importance = "high"

\* C9 as stated: src/auth/login.ts, modified, 60 added lines whose content
\* includes fix, no removals: category backend, changeType fix, importance high.
C9_AsStated ==
    (Done /\ LoginScenario /\ AddedLineIncludes(files[1], "fix")) =>
        /\ Len(enhancedFiles) = 1
        /\ BackendFixHigh(enhancedFiles[1])

\* C9: src/auth/login.ts, modified, 60 added lines, no removals, and fix in
\* the lower-cased content of a change the extractor keeps: category backend,
\* changeType fix, importance high.
C9_FixInKeptChange ==
    (/\ Done
     /\ LoginScenario
     /\ Len(enhancedFiles) = 1
     /\ \E i \in 1..Len(enhancedFiles[1].meaningfulChanges) :
           Includes(ToLowerCase(enhancedFiles[1].meaningfulChanges[i].content), "fix"))
        => BackendFixHigh(enhancedFiles[1])

\* C9 witness: the call returned for the file whose kept changes include fix
C9_Witness ==
    /\ Done
    /\ LoginScenario
    /\ AddedLineIncludes(files[1], "applyFix")
    /\ BackendFixHigh(enhancedFiles[1])

\* the input is the single file README.md with 5 added lines
ReadmeScenario ==
    /\ Len(files) = 1
    /\ files[1].filename = "README.md"
    /\ files[1].additions = 5

\* README.md is docs, docs, low; it is not in the readmeRelevant view, it is
\* in the docs bucket and in the legacy text
ReadmeOutcome ==
    /\ Len(enhancedFiles) = 1
    /\ enhancedFiles[1].category = "docs"
    /\ enhancedFiles[1].changeType = "docs"
    /\ enhancedFiles[1].importance = "low"
    /\ "README.md" \notin SummaryFiles(out[1].summary.readmeRelevant)
    /\ \E i \in 1..Len(out[1].categories["docs"]) :
          out[1].categories["docs"][i].filename = "README.md"
    /\ Includes(out[1].legacySummary, "- README.md")

\* C10 as stated: README.md alone with 5 added lines is docs, docs, low, not
\* in readmeRelevant, in the docs bucket and in the legacy text.
C10_AsStated ==
    (Done /\ ReadmeScenario) => ReadmeOutcome

\* C10: README.md alone with 5 added lines, of which the extractor keeps at
\* least one change that is not a formatting pattern, is docs, docs, low, not
\* in readmeRelevant, in the docs bucket and in the legacy text.
C10_ReadmeWithKeptChange ==
    (/\ Done
     /\ ReadmeScenario
     /\ LET changes == extractMeaningfulChanges(files[1])
        IN  \E i \in 1..Len(changes) : ~FORMATTING_PATTERNS(changes[i].content))
        => ReadmeOutcome

\* C10 witness: the call returned for README.md with five lines of prose
C10_Witness ==
    /\ Done
    /\ ReadmeScenario
    /\ Len(extractMeaningfulChanges(files[1])) = 5
    /\ Len(out[1].categories["docs"]) = 1

\* the input is a single file of category test whose patch has 2000 characters
TestPatchScenario ==
    /\ Len(files) = 1
    /\ detectCategory(files[1].filename) = "test"
    /\ files[1].patch # Undefined
    /\ Len(files[1].patch[1]) = 2000

\* the test bucket holds one file with at most 10 changes, flagged truncated,
\* and costs at most 200 tokens plus the cost of the file's capped change list
TestPatchOutcome ==
    LET bucket == out[1].categories["test"]
    IN  /\ Len(bucket) = 1
        /\ Len(bucket[1].meaningfulChanges) <= 10
        /\ bucket[1].truncated
        /\ CostUpTo(out[1].categories, "test", 1)
              <= 200 + estimateTokens(Slice0(categorized["test"][1].meaningfulChanges, 10))

\* C11 as stated: a single test file with a patch of 2000 characters has at
\* most 10 changes and truncated = true in the output, and the test bucket
\* costs at most 200 tokens plus the one-file overshoot.
C11_AsStated ==
    (Done /\ TestPatchScenario) => TestPatchOutcome

\* C11: a single test file with a patch of 2000 characters from which the
\* extractor keeps more than 10 changes has at most 10 changes and
\* truncated = true in the output, and the test bucket costs at most 200
\* tokens plus the one-file overshoot.
C11_TestPatchOverLineLimit ==
    (Done /\ TestPatchScenario /\ Len(extractMeaningfulChanges(files[1])) > 10)
        => TestPatchOutcome

\* C11 witness: the call returned for the test file of 19 long lines, cut to
\* 8 changes that cost the 200 tokens of the budget
C11_Witness ==
    /\ Done
    /\ TestPatchScenario
    /\ Len(extractMeaningfulChanges(files[1])) = 19
    /\ Len(out[1].categories["test"][1].meaningfulChanges) = 8
    /\ out[1].categories["test"][1].truncated

\* the enhanced file has status added and the word fix in the content of its
\* meaningful changes
AddedWithFix(e) ==
    /\ e.status = "added"
    /\ \E i \in 1..Len(e.meaningfulChanges) :
          Includes(ToLowerCase(e.meaningfulChanges[i].content), "fix")

\* C12 as stated: a file with status added whose meaningful changes contain
\* the word fix has changeType feature, for every path.
C12_AsStated ==
    Done =>
        \A i \in 1..Len(enhancedFiles) :
            AddedWithFix(enhancedFiles[i]) => enhancedFiles[i].changeType = "feature"

\* C12: a file with status added whose meaningful changes contain the word
\* fix and whose path does not end in .md, .txt or .rst has changeType feature.
C12_AddedBeforeKeywords ==
    Done =>
        \A i \in 1..Len(enhancedFiles) :
            (/\ AddedWithFix(enhancedFiles[i])
             /\ ~EndsWith(enhancedFiles[i].filename, ".md")
             /\ ~EndsWith(enhancedFiles[i].filename, ".txt")
             /\ ~EndsWith(enhancedFiles[i].filename, ".rst"))
                => enhancedFiles[i].changeType = "feature"

\* C12 witness: the call returned for the new Makefile with a fix line
C12_Witness ==
    /\ Done
    /\ \E i \in 1..Len(enhancedFiles) :
          /\ AddedWithFix(enhancedFiles[i])
          /\ enhancedFiles[i].filename = "Makefile"
          /\ enhancedFiles[i].changeType = "feature"

\* the request is a pull_request event that the handler processes
ProcessedPullRequest ==
    /\ req.method = "POST"
    /\ ~req.signatureRejected
    /\ req.event = "pull_request"
    /\ req.action \in {"opened", "synchronize", "reopened"}

\* additions + deletions over all the files of the pull request
TotalChangedLines ==
    SumOf(req.prFiles, LAMBDA f : f.additions + f.deletions)

\* the pull request changes files, and all of them are test files
OnlyTestFiles ==
    /\ Len(req.prFiles) > 0
    /\ \A i \in 1..Len(req.prFiles) : isTestFile(req.prFiles[i].filename)

\* the pull request changes files, and all of them are documentation files
OnlyDocsFiles ==
    /\ Len(req.prFiles) > 0
    /\ \A i \in 1..Len(req.prFiles) : isDocsFile(req.prFiles[i].filename)

\* the text generation was not called and no summary comment was posted
NothingGenerated ==
    /\ llmCalls = 0
    /\ \A i \in 1..Len(comments) : comments[i] # "summary"

\* C13: for a pull_request event (opened, synchronize or reopened) with fewer
\* than 10 changed lines in total, or with test files only, or with
\* documentation files only, the text generation is never called and no
\* summary comment is posted.
C13_SmallOrTestOrDocsSkipped ==
    (ProcessedPullRequest /\ (TotalChangedLines < 10 \/ OnlyTestFiles \/ OnlyDocsFiles))
        => NothingGenerated

\* C13 witness: shouldSkipPR has skipped a pull request of 15 changed lines
\* in a documentation file, and the handler has answered
C13_Witness ==
    /\ ProcessedPullRequest
    /\ OnlyDocsFiles
    /\ TotalChangedLines = 15
    /\ skipCheck = Some([shouldSkip |-> TRUE, reason |-> "docs or tests only"])
    /\ res = 200
    /\ NothingGenerated

\* the pull request has the label no-ai-review, or WIP or [skip ci] in its title
MarkedNoReview ==
    \/ \E i \in 1..Len(req.labels) : req.labels[i] = "no-ai-review"
    \/ Includes(req.title, "WIP")
    \/ Includes(req.title, "[skip ci]")

\* C14: for a pull request with the label no-ai-review, or with WIP or
\* [skip ci] in its title, no summary is generated and no summary comment is
\* posted.
C14_MarkedPullRequestSkipped ==
    (ProcessedPullRequest /\ MarkedNoReview) => NothingGenerated

\* the rules of the importance score in their stated order, as pairs of a
\* condition on the enhanced file and a level
ImportanceRules(e) ==
    << <<e.category = "backend" /\ e.additions > 50, "high">>,
       <<e.changeType = "feature" /\ e.status = "added", "high">>,
       <<Includes(e.filename, "schema") \/ Includes(e.filename, "migration"), "high">>,
       <<Includes(e.filename, "auth") \/ Includes(e.filename, "security"), "high">>,
       <<e.category = "test", "low">>,
       <<e.category = "docs" /\ e.changeType # "feature", "low">>,
       <<e.changeType = "style", "low">>,
       <<TRUE, "medium">> >>

\* the level of the first rule whose condition holds
FirstRuleLevel(e) ==
    LET rules == ImportanceRules(e)
        k == Min({i \in 1..Len(rules) : rules[i][1]})
    IN  rules[k][2]

\* C15: the importance of every enhanced file is the level of the first
\* matching rule of the stated order; a test or docs file whose path contains
\* auth, security, schema or migration is high.
C15_FirstImportanceRuleWins ==
    Done =>
        \A i \in 1..Len(enhancedFiles) :
            LET e == enhancedFiles[i]
            IN  /\ e.importance = FirstRuleLevel(e)
                /\ (/\ e.category \in {"test", "docs"}
                    /\ \E w \in {"auth", "security", "schema", "migration"} :
                          Includes(e.filename, w))
                      => e.importance = "high"

\* C15 witness: a modified test file whose path contains auth is high, and a
\* test file without such a word is low
C15_Witness ==
    /\ Done
    /\ \E i \in 1..Len(enhancedFiles) :
          /\ enhancedFiles[i].category = "test"
          /\ enhancedFiles[i].status = "modified"
          /\ Includes(enhancedFiles[i].filename, "auth")
          /\ enhancedFiles[i].importance = "high"
    /\ \E i \in 1..Len(enhancedFiles) :
          /\ enhancedFiles[i].category = "test"
          /\ enhancedFiles[i].importance = "low"

\* the ordinal of an importance level, as stated: high first
ImportanceOrdinal == [high |-> 0, medium |-> 1, low |-> 2]

\* the position in the input list of the file of that name
InputIndex(name) == CHOOSE j \in 1..Len(files) : files[j].filename = name

\* C16: in every bucket of the output the files are in non-decreasing order
\* of importance ordinal, files of equal importance are in their order of
\* the input list, and the bucket has the files of the bucket given to the
\* budget allocation, in the same order.
C16_BucketsSortedStable ==
    Done =>
        \A c \in FileCategory :
            LET bucket == out[1].categories[c]
            IN  /\ \A i, j \in 1..Len(bucket) :
                     i < j =>
                        /\ ImportanceOrdinal[bucket[i].importance]
                              <= ImportanceOrdinal[bucket[j].importance]
                        /\ bucket[i].importance = bucket[j].importance
                              => InputIndex(bucket[i].filename) < InputIndex(bucket[j].filename)
                /\ [i \in 1..Len(bucket) |-> bucket[i].filename]
                      = [i \in 1..Len(categorized[c]) |-> categorized[c][i].filename]

\* C16 witness: a bucket of two files that the sort has put in the other
\* order than the input list
C16_Witness ==
    /\ Done
    /\ \E c \in FileCategory :
          LET bucket == out[1].categories[c]
          IN  /\ Len(bucket) = 2
              /\ bucket[1].importance = "high"
              /\ bucket[2].importance = "low"
              /\ InputIndex(bucket[1].filename) > InputIndex(bucket[2].filename)

\* a step is one call of the map callback of applyTruncation
CallbackStep == pc = "truncating" /\ fileIdx' = fileIdx + 1

\* the category whose bucket is being processed
CurrentCategory == orderedCategories[catIdx]

\* C17: the files of a bucket are processed one after the other in bucket
\* order against a counter that is 0 at the first file of every bucket and
\* that no call decreases; a call that finds the counter greater than or
\* equal to the budget of the category gives the file an empty change list
\* and truncated = true and leaves the counter as it is, so every later file
\* of the bucket gets the same.
C17_ExhaustedBudgetEmptiesTheRest ==
    /\ [](pc = "truncating" /\ fileIdx = 1 => categoryTokens = 0)
    /\ [][CallbackStep =>
            /\ catIdx' = catIdx
            /\ categoryTokens' >= categoryTokens
            /\ \A c \in FileCategory : \A i \in 1..Len(result[c]) :
                  (c # CurrentCategory \/ i # fileIdx) => result'[c][i] = result[c][i]
            /\ result'[CurrentCategory][fileIdx].filename
                  = categorized[CurrentCategory][fileIdx].filename
            /\ categoryTokens >= CATEGORY_TOKEN_BUDGET[CurrentCategory] =>
                  /\ result'[CurrentCategory][fileIdx].meaningfulChanges = <<>>
                  /\ result'[CurrentCategory][fileIdx].truncated = TRUE
                  /\ categoryTokens' = categoryTokens]_vars

\* C17 witness: a file that had changes has been emptied and flagged by a
\* call that found the counter at or over the budget of its category
C17_Witness ==
    /\ pc = "truncating"
    /\ catIdx <= Len(orderedCategories)
    /\ categoryTokens >= CATEGORY_TOKEN_BUDGET[CurrentCategory]
    /\ fileIdx = 3
    /\ categorized[CurrentCategory][2].meaningfulChanges # <<>>
    /\ result[CurrentCategory][2].meaningfulChanges = <<>>
    /\ result[CurrentCategory][2].truncated

\* the file the current call of the callback is given, and what it returns
GivenFile == categorized[CurrentCategory][fileIdx]
ReturnedFile == result'[CurrentCategory][fileIdx]

\* the changes of the given file up to the line limit of its category
CappedChanges == Slice0(GivenFile.meaningfulChanges, CATEGORY_LINE_LIMITS[CurrentCategory])

\* the call finds budget left, and the cost of the capped list added to the
\* counter exceeds the budget
OverflowStep ==
    /\ CallbackStep
    /\ categoryTokens < CATEGORY_TOKEN_BUDGET[CurrentCategory]
    /\ categoryTokens + estimateTokens(CappedChanges) > CATEGORY_TOKEN_BUDGET[CurrentCategory]

\* the call finds budget left, and the cost of the capped list fits
FitStep ==
    /\ CallbackStep
    /\ categoryTokens < CATEGORY_TOKEN_BUDGET[CurrentCategory]
    /\ categoryTokens + estimateTokens(CappedChanges) <= CATEGORY_TOKEN_BUDGET[CurrentCategory]

\* the line limit removed changes of the given file
LineLimitCut == Len(CappedChanges) < Len(GivenFile.meaningfulChanges)

\* C18 as stated: the file returned by an overflow step has truncated = true;
\* the file returned by a step that fits has truncated = true only if the
\* line limit removed changes.
C18_AsStated ==
    [][/\ OverflowStep => ReturnedFile.truncated = TRUE
       /\ FitStep => (ReturnedFile.truncated => LineLimitCut)]_vars

\* C18: the file returned by an overflow step has truncated = true exactly
\* when it has fewer changes than the file given, which is so whenever the
\* capped list has two changes or more or the line limit removed changes;
\* the file returned by a step that fits has truncated = true exactly when
\* the line limit removed changes.
C18_OverflowFlaggedIffChangesDropped ==
    [][/\ OverflowStep =>
            /\ ReturnedFile.truncated
                  = (Len(ReturnedFile.meaningfulChanges) < Len(GivenFile.meaningfulChanges))
            /\ (Len(CappedChanges) >= 2 \/ LineLimitCut) => ReturnedFile.truncated = TRUE
       /\ FitStep => ReturnedFile.truncated = LineLimitCut]_vars

\* C18 witness: the first file of a bucket had a capped list of two changes or
\* more that costs more than the budget, and the call returned it flagged
C18_Witness ==
    /\ pc = "truncating"
    /\ catIdx <= Len(orderedCategories)
    /\ fileIdx = 2
    /\ LET given == categorized[CurrentCategory][1]
           capped == Slice0(given.meaningfulChanges, CATEGORY_LINE_LIMITS[CurrentCategory])
       IN  /\ Len(capped) >= 2
           /\ estimateTokens(capped) > CATEGORY_TOKEN_BUDGET[CurrentCategory]
           /\ result[CurrentCategory][1].truncated
           /\ Len(result[CurrentCategory][1].meaningfulChanges) < Len(capped)

\* what is left of the budget of the category when the call is made
RemainingBudget == CATEGORY_TOKEN_BUDGET[CurrentCategory] - categoryTokens

\* C19 as stated: the file returned by an overflow step has the longest
\* prefix of the capped list whose cost is at most the remaining budget, or
\* the first change when not even that one fits.
C19_AsStated ==
    [][OverflowStep =>
          ReturnedFile.meaningfulChanges
              = Slice0(CappedChanges,
                       Max2(1, LongestFittingPrefix(CappedChanges, RemainingBudget)))]_vars

\* C19: the file returned by an overflow step has the first k changes of the
\* capped list of n changes costing fileTokens together, where k is at least
\* 1 and is the number of changes that fit the remaining budget at the
\* average cost fileTokens / n: k is 1 or k changes fit at that cost, and
\* k + 1 changes exceed the remaining budget at that cost, or meet it exactly
\* (the quotient is then a whole number and the rounding of the average may
\* have taken one off); the counter grows by the cost of the k changes.
C19_PrefixByAverageCost ==
    [][OverflowStep =>
          LET n == Len(CappedChanges)
              fileTokens == estimateTokens(CappedChanges)
              k == Len(ReturnedFile.meaningfulChanges)
          IN  /\ k \in 1..n
              /\ ReturnedFile.meaningfulChanges = Slice0(CappedChanges, k)
              /\ k = 1 \/ k * fileTokens <= RemainingBudget * n
              /\ (k + 1) * fileTokens >= RemainingBudget * n
              /\ categoryTokens'
                    = categoryTokens + estimateTokens(ReturnedFile.meaningfulChanges)]_vars

\* C19 witness: an overflow step on the first file of a bucket kept two
\* changes or more that cost more than the budget, fewer than the capped list
C19_Witness ==
    /\ pc = "truncating"
    /\ catIdx <= Len(orderedCategories)
    /\ fileIdx = 2
    /\ LET given == categorized[CurrentCategory][1]
           capped == Slice0(given.meaningfulChanges, CATEGORY_LINE_LIMITS[CurrentCategory])
           kept == result[CurrentCategory][1].meaningfulChanges
       IN  /\ Len(kept) >= 2
           /\ Len(kept) < Len(capped)
           /\ estimateTokens(kept) > CATEGORY_TOKEN_BUDGET[CurrentCategory]
           /\ categoryTokens = estimateTokens(kept)

\* an overflow step on the first file of a bucket kept one change fewer than
\* fit at the average cost: the quotient is a whole number and the double
\* quotient is under it
RoundedDownReached ==
    /\ pc = "truncating"
    /\ catIdx <= Len(orderedCategories)
    /\ fileIdx = 2
    /\ LET given == categorized[CurrentCategory][1]
           capped == Slice0(given.meaningfulChanges, CATEGORY_LINE_LIMITS[CurrentCategory])
           kept == result[CurrentCategory][1].meaningfulChanges
       IN  /\ estimateTokens(capped) > CATEGORY_TOKEN_BUDGET[CurrentCategory]
           /\ (Len(kept) + 1) * estimateTokens(capped)
                 = CATEGORY_TOKEN_BUDGET[CurrentCategory] * Len(capped)

\* the line limit of every category, as stated
StatedLineLimits ==
    [backend |-> 30, frontend |-> 25, infra |-> 20, config |-> 15, other |-> 15,
     docs |-> 10, test |-> 10]

\* C20: every file of the output has at most as many changes as the line
\* limit of its category (backend 30, frontend 25, infra 20, config 15,
\* other 15, docs 10, test 10), whatever the call of the callback found in
\* the counter and whatever the other files of the input are.
C20_AtMostLineLimitChanges ==
    /\ [](Done =>
            \A c \in FileCategory : \A i \in 1..Len(out[1].categories[c]) :
                Len(out[1].categories[c][i].meaningfulChanges) <= StatedLineLimits[c])
    /\ [][CallbackStep =>
            Len(ReturnedFile.meaningfulChanges) <= StatedLineLimits[CurrentCategory]]_vars

\* C20 witness: a file from which more changes were extracted than the line
\* limit of its category is in the output with exactly that many changes
C20_Witness ==
    /\ Done
    /\ \E c \in FileCategory : \E i \in 1..Len(out[1].categories[c]) :
          /\ Len(categorized[c][i].meaningfulChanges) > StatedLineLimits[c]
          /\ Len(out[1].categories[c][i].meaningfulChanges) = StatedLineLimits[c]

\* the call finds budget left in the category
BudgetLeft == categoryTokens < CATEGORY_TOKEN_BUDGET[CurrentCategory]

\* C21: a call of the callback that finds budget left and is given a file
\* with at least one change returns it with at least one change, and a call
\* returns a file with no change only when it finds no budget left.
C21_KeepsOneChangeWhileBudgetLeft ==
    [][CallbackStep =>
          /\ (BudgetLeft /\ Len(GivenFile.meaningfulChanges) >= 1)
                => Len(ReturnedFile.meaningfulChanges) >= 1
          /\ Len(ReturnedFile.meaningfulChanges) = 0 => ~BudgetLeft]_vars

\* the callback of applyTruncation applied to the files of a bucket from
\* position i on, the counter being tokens at position i
RECURSIVE truncateBucket(_, _, _, _)
truncateBucket(bucket, category, i, tokens) ==
    IF i > Len(bucket) THEN <<>>
    ELSE LET r == truncateFile(bucket[i], category, tokens)
         IN  <<r.file>> \o truncateBucket(bucket, category, i + 1, r.tokens)

\* the input files that survive Step 1 and Step 3 and are of category c, in
\* the order of the input
SurvivorsOfCategory(c) ==
    LET ofCategory(f) == Survives(f) /\ detectCategory(f.filename) = c
    IN  Filter(files, ofCategory)

\* the bucket of category c that process() makes of these files alone: they
\* are enhanced, sorted by importance and truncated from a counter of 0
BucketAlone(c) ==
    LET alone == SurvivorsOfCategory(c)
        enhanced == [i \in 1..Len(alone) |-> enhanceFileDiff(alone[i])]
    IN  truncateBucket(categorizeFiles(enhanced)[c], c, 1, 0)

\* C22: the bucket of every category in the output is a function of the
\* surviving input files of that category in their order alone: it is what
\* the truncation makes of these files from a counter of 0, whatever the
\* files of the other categories are and wherever the category comes in the
\* order of processing.
C22_BucketDependsOnOwnFilesOnly ==
    Done => \A c \in FileCategory : out[1].categories[c] = BucketAlone(c)

\* C22 witness: the bucket of a category processed earlier costs at least the
\* whole budget of a category processed later, whose file keeps changes
C22_Witness ==
    /\ Done
    /\ \E i, j \in 1..Len(orderedCategories) :
          /\ i < j
          /\ LET first == orderedCategories[i]
                 later == orderedCategories[j]
             IN  /\ Len(out[1].categories[later]) >= 1
                 /\ CostUpTo(out[1].categories, first, Len(out[1].categories[first]))
                       >= CATEGORY_TOKEN_BUDGET[later]
                 /\ out[1].categories[later][1].meaningfulChanges # <<>>

\* the fields of an enhanced file other than its change list and its
\* truncated flag
FrameOf(e) ==
    [filename |-> e.filename, status |-> e.status, additions |-> e.additions,
     deletions |-> e.deletions, category |-> e.category, changeType |-> e.changeType,
     importance |-> e.importance, isGenerated |-> e.isGenerated,
     isFormattingOnly |-> e.isFormattingOnly, originalLineCount |-> e.originalLineCount]

\* the list a is the first Len(a) elements of the list b
IsPrefix(a, b) == Len(a) <= Len(b) /\ a = SubSeq(b, 1, Len(a))

\* C23: when process() has returned, every bucket of the output has the
\* files of the bucket given to the budget allocation, at the same positions
\* and with the same filename, status, additions, deletions, category,
\* changeType, importance, isGenerated, isFormattingOnly and
\* originalLineCount, each with a prefix of the changes extracted from the
\* file; and no step of the allocation changes the buckets it was given.
C23_AllocatorChangesOnlyChangesAndFlag ==
    /\ [](Done =>
            \A c \in FileCategory :
                /\ Len(out[1].categories[c]) = Len(categorized[c])
                /\ \A i \in 1..Len(categorized[c]) :
                      LET given == categorized[c][i]
                          returned == out[1].categories[c][i]
                      IN  /\ FrameOf(returned) = FrameOf(given)
                          /\ IsPrefix(returned.meaningfulChanges, given.meaningfulChanges)
                          /\ given.meaningfulChanges
                                = extractMeaningfulChanges(AsFileDiff(given)))
    /\ [][pc = "truncating" => categorized' = categorized]_vars

\* C23 witness: the output has a bucket of two files, one of them cut to a
\* proper prefix of its changes that is not empty, and flagged
C23_Witness ==
    /\ Done
    /\ \E c \in FileCategory :
          /\ Len(out[1].categories[c]) = 2
          /\ \E i \in 1..2 :
                LET given == categorized[c][i]
                    returned == out[1].categories[c][i]
                IN  /\ returned.truncated
                    /\ ~given.truncated
                    /\ returned.meaningfulChanges # <<>>
                    /\ Len(returned.meaningfulChanges) < Len(given.meaningfulChanges)

\* the categories from the highest priority to the lowest, as stated
StatedPriorityOrder == <<"backend", "frontend", "config", "infra", "other", "docs", "test">>

\* the names of the files of a bucket that are not of low importance, in the
\* order of the bucket
NonLowNames(bucket) ==
    LET notLow(f) == f.importance # "low"
        kept == Filter(bucket, notLow)
    IN  [i \in 1..Len(kept) |-> kept[i].filename]

\* C24: in the output the general summary has, for every category whose
\* bucket has a file of importance other than low, exactly one entry, which
\* lists the names of exactly these files; it has no entry for any other
\* category; and its entries are in the order backend, frontend, config,
\* infra, other, docs, test.
C24_GeneralSummaryEntries ==
    Done =>
        LET view == out[1].summary.prRelevant
            cats == out[1].categories
        IN  /\ \A c \in FileCategory :
                  LET entries == {k \in 1..Len(view) : view[k].category = c}
                  IN  IF NonLowNames(cats[c]) # <<>>
                      THEN /\ Cardinality(entries) = 1
                           /\ \A k \in entries : view[k].files = NonLowNames(cats[c])
                      ELSE entries = {}
            /\ \A k \in 1..Len(view) : view[k].category \in FileCategory
            /\ \A k, l \in 1..Len(view) :
                  k < l =>
                     \E a, b \in 1..Len(StatedPriorityOrder) :
                        /\ a < b
                        /\ StatedPriorityOrder[a] = view[k].category
                        /\ StatedPriorityOrder[b] = view[l].category

\* C24 witness: the general summary has two entries, in the other order than
\* the keys of the buckets
C24_Witness ==
    /\ Done
    /\ Len(out[1].summary.prRelevant) = 2
    /\ \E a, b \in 1..Len(categoryKeys) :
          /\ a > b
          /\ categoryKeys[a] = out[1].summary.prRelevant[1].category
          /\ categoryKeys[b] = out[1].summary.prRelevant[2].category

(***************************************************************************)
(* process() called with lists of three files, for the summaries of        *)
(* several files of one category                                           *)
(***************************************************************************)

\* the length of the lists of files of this specification
SummaryFilesLen == 3

FRoutes ==
    FileDiffOf("src/api/routes.ts", "modified", 3, 0,
        Some("@@ -1,2 +1,5 @@\n import { Router } from 'express';\n"
             \o "+router.get('/users', listUsers);\n+router.post('/users', createUser);\n"
             \o "+router.get('/health', health);"))

\* a new file
FMailer ==
    FileDiffOf("src/api/mailer.ts", "added", 2, 0,
        Some("@@ -0,0 +1,2 @@\n+export const send = (to) => queue.push(to);\n"
             \o "+export const flush = () => queue.drain();"))

FJobs ==
    FileDiffOf("src/api/jobs.ts", "modified", 2, 0,
        Some("@@ -4,2 +4,4 @@\n const jobs = [];\n+jobs.push(cleanup);\n+jobs.push(report);"))

\* the first change is a removed line
FHandlers ==
    FileDiffOf("src/api/handlers.ts", "modified", 2, 1,
        Some("@@ -9,3 +9,4 @@\n async function show(req, res) {\n-return res.send(user);\n"
             \o "+return res.json(user);\n+audit(user);"))

\* a second test file with auth in its path
FAuthFlowTest ==
    FileDiffOf("tests/auth-flow.test.ts", "modified", 2, 0,
        Some("@@ -3,2 +3,4 @@\n+expect(flow(1)).toBe(1);\n+expect(flow(2)).toBe(2);"))

SummaryFilePool == {FRoutes, FMailer, FJobs, FHandlers, FAuthTest, FAuthFlowTest}

\* the lists of SummaryFilesLen files of the pool, a path listed once
SummaryInputs ==
    {fs \in [1..SummaryFilesLen -> SummaryFilePool] :
        \A i, j \in 1..Len(fs) : fs[i].filename = fs[j].filename => i = j}

SummaryInit ==
    /\ files \in SummaryInputs
    /\ prTitle \in PrTitles
    /\ pc = "idle"
    /\ enhancedFiles = <<>>
    /\ categorized = EmptyCategories
    /\ result = EmptyCategories
    /\ catIdx = 0
    /\ fileIdx = 0
    /\ categoryTokens = 0
    /\ out = Undefined
    /\ prevOut = Undefined
    /\ WebhookAtRest
    /\ DeliveriesAtRest

SummarySpec == SummaryInit /\ [][Next]_vars

\* the three views of the summary of the output
SummaryViews ==
    <<out[1].summary.prRelevant, out[1].summary.readmeRelevant, out[1].summary.adrRelevant>>

\* the file of that name in the bucket
FileNamed(bucket, name) ==
    bucket[CHOOSE i \in 1..Len(bucket) : bucket[i].filename = name]

\* the contents of the changes of type added among the first 2 changes the
\* files of the entry have in the output, file after file in the order of
\* the entry
HighlightCandidates(entry) ==
    LET firstTwoAdded(name) ==
            LET f == FileNamed(out[1].categories[entry.category], name)
                isAdded(c) == c.type = "added"
                picked == Filter(Slice0(f.meaningfulChanges, 2), isAdded)
            IN  [i \in 1..Len(picked) |-> picked[i].content]
    IN  FlatMap(entry.files, firstTwoAdded)

\* C25: in the output every entry of every view of the summary has at most 5
\* highlights, and they are the first of the contents of the changes of type
\* added among the first 2 retained changes of the entry's files, taken file
\* after file; a file left without changes gives none.
C25_HighlightsFromFirstTwoAdded ==
    Done =>
        \A v \in 1..Len(SummaryViews) : \A k \in 1..Len(SummaryViews[v]) :
            LET entry == SummaryViews[v][k]
            IN  /\ Len(entry.highlights) <= 5
                /\ IsPrefix(entry.highlights, HighlightCandidates(entry))

\* C25 witness: an entry has 5 highlights of three files that have 6 changes
\* of type added among their first 2
C25_Witness ==
    /\ Done
    /\ \E v \in 1..Len(SummaryViews) : \E k \in 1..Len(SummaryViews[v]) :
          LET entry == SummaryViews[v][k]
          IN  /\ Len(entry.files) = 3
              /\ Len(entry.highlights) = 5
              /\ Len(HighlightCandidates(entry)) = 6

\* an entry lists a file that the exhausted budget left without changes, and
\* has highlights of another file only
EmptiedFileInEntry ==
    /\ Done
    /\ \E v \in 1..Len(SummaryViews) : \E k \in 1..Len(SummaryViews[v]) :
          LET entry == SummaryViews[v][k]
          IN  /\ entry.highlights # <<>>
              /\ \E j \in 1..Len(entry.files) :
                    LET f == FileNamed(out[1].categories[entry.category], entry.files[j])
                    IN  /\ f.meaningfulChanges = <<>>
                        /\ f.originalLineCount > 0

\* the parts of the legacy text as stated: for every bucket that is not
\* empty the header of the category and, for every file, its path, its first
\* 5 changes, and the marker with the number of changes not shown when the
\* file had more changes than are shown
StatedLegacyParts(categories) ==
    LET fileParts(file) ==
            LET shown == Slice0(file.meaningfulChanges, 5)
                changes == Join([i \in 1..Len(shown) |->
                                   "  " \o (IF shown[i].type = "added" THEN "+" ELSE "-")
                                        \o " " \o shown[i].content], "\n")
                notShown == file.originalLineCount - Len(shown)
            IN  <<"- " \o file.filename>>
                  \o (IF changes # "" THEN <<changes>> ELSE <<>>)
                  \o (IF notShown > 0
                      THEN <<"  ... (+" \o NumberToString(notShown) \o " lines)">>
                      ELSE <<>>)
        catParts(cat) ==
            IF Len(categories[cat]) = 0 THEN <<>>
            ELSE <<"### " \o CATEGORY_LABELS[cat]>> \o FlatMap(categories[cat], fileParts)
    IN  FlatMap(categoryKeys, catParts)

\* C26: the legacy text of the output has, for every file of a bucket that is
\* not empty, the path of the file and at most 5 of its changes, and the
\* marker of N more lines exactly when the file had more meaningful changes
\* than are shown, N being the number of changes not shown.
C26_LegacyMarkerCountsHiddenChanges ==
    Done => out[1].legacySummary = Join(StatedLegacyParts(out[1].categories), "\n\n")

(***************************************************************************)
(* process() called with one file whose patch is made of a hunk header and *)
(* of lines of every kind                                                  *)
(***************************************************************************)

\* the number of lines of the patch after its first hunk header
PatchLinesLen == 3

\* a context line, an added line that is kept, two added lines that are
\* noise, a removed line, an added line whose text starts with ++, and a
\* second hunk header
PatchLineKinds ==
    {" const a = 1;", "+add(1);", "+// note", "+", "-old();", "+++i;",
     "@@ -5,2 +9,3 @@ run()"}

PatchBodies == UNION {[1..n -> PatchLineKinds] : n \in 0..PatchLinesLen}

PatchFileOf(body) ==
    LET plus(l) == StartsWith(l, "+")
        minus(l) == StartsWith(l, "-")
    IN  FileDiffOf("src/api/patched.ts", "modified",
                   Len(Filter(body, plus)), Len(Filter(body, minus)),
                   Some(Join(<<"@@ -1,3 +1,4 @@">> \o body, "\n")))

PatchInit ==
    /\ files \in {<<PatchFileOf(body)>> : body \in PatchBodies}
    /\ prTitle \in PrTitles
    /\ pc = "idle"
    /\ enhancedFiles = <<>>
    /\ categorized = EmptyCategories
    /\ result = EmptyCategories
    /\ catIdx = 0
    /\ fileIdx = 0
    /\ categoryTokens = 0
    /\ out = Undefined
    /\ prevOut = Undefined
    /\ WebhookAtRest
    /\ DeliveriesAtRest

PatchSpec == PatchInit /\ [][Next]_vars

\* the lines of the patch of an enhanced file
PatchLinesOf(e) == IF HasPatch(e) THEN Split(e.patch[1]) ELSE <<>>

\* the line is a hunk header, an added line, a removed line, a context line
IsHunkHeader(line) == hunkMatch(line) # Undefined
IsAddedLine(line) == StartsWith(line, "+")
IsRemovedLine(line) == StartsWith(line, "-")
IsContextLine(line) == StartsWith(line, " ")

\* the patch has lines of these four kinds only and starts with a hunk header
StatedPatchShape(lines) ==
    /\ Len(lines) >= 1
    /\ IsHunkHeader(lines[1])
    /\ \A i \in 1..Len(lines) :
          IsHunkHeader(lines[i]) \/ IsAddedLine(lines[i]) \/ IsRemovedLine(lines[i])
             \/ IsContextLine(lines[i])

\* the position in the new file of line i of the patch: the target start of
\* the latest hunk header before it plus the number of context lines and of
\* added lines between that header and the line
PositionInNewFile(lines, i) ==
    LET headers == {k \in 1..(i - 1) : IsHunkHeader(lines[k])}
        h == CHOOSE k \in headers : \A l \in headers : l <= k
        between == {k \in (h + 1)..(i - 1) : IsContextLine(lines[k]) \/ IsAddedLine(lines[k])}
    IN  ParseInt(hunkMatch(lines[h])[1]) + Cardinality(between)

\* the indices of the lines of the patch of which a change of that sign is
\* kept, in increasing order
KeptLines(lines, sign) ==
    LET kept(i) ==
            /\ ~IsHunkHeader(lines[i])
            /\ StartsWith(lines[i], sign)
            /\ ~StartsWith(lines[i], sign \o sign \o sign)
            /\ LET content == Trim(SubSeq(lines[i], 2, Len(lines[i])))
               IN  isMeaningfulLine(content) /\ ~FORMATTING_PATTERNS(content)
    IN  Filter([i \in 1..Len(lines) |-> i], kept)

\* the changes of that type of a list of changes
ChangesOfType(changes, t) ==
    LET ofType(c) == c.type = t
    IN  Filter(changes, ofType)

Ended(d) == deliveries[d].pc \in {"returned", "thrown"}

\* a commit is recorded as processed only after its summary comment was posted
RecordedOnlyAfterComment ==
    \A c \in processedRows : summaryComments[c] >= 1

\* C28: for a repository, a pull request number and a head commit sha, at most
\* one summary comment is ever posted, however many deliveries of the commit
\* are handled and however they interleave, and a commit is recorded as
\* processed only after its summary comment was posted.
C28_OneSummaryCommentPerCommit ==
    /\ \A c \in DOMAIN summaryComments : summaryComments[c] <= 1
    /\ RecordedOnlyAfterComment

\* two deliveries of a commit have both posted its summary comment
C28_TwoCommentsOfOneCommit ==
    \E d, e \in DOMAIN deliveries :
        /\ d # e
        /\ deliveries[d].pr = deliveries[e].pr
        /\ deliveries[d].posted /\ deliveries[e].posted

\* the call of checkAndIncrementUsage of the delivery has read the row and
\* has not returned
InsideCheckAndIncrementUsage(d) ==
    deliveries[d].pc \in {"insertUsage", "incrementUsage", "updateUsage"}

\* pr_count of the month; no row stands for no use
StoredPrCount == IF usageRow = Undefined THEN 0 ELSE usageRow[1]

\* C29: for a repository on the free plan, at most 10 calls of
\* checkAndIncrementUsage of a month return allowed: true, and the stored
\* pr_count is the number of the allowed calls, for every interleaving of
\* calls for the repository, the first use of the month included.
C29_FreePlanAllowsTenCallsAMonth ==
    repoPlan = "free" =>
        /\ allowedCalls <= FREE_PLAN_LIMIT
        /\ (\A d \in DOMAIN deliveries : ~InsideCheckAndIncrementUsage(d))
               => StoredPrCount = allowedCalls

\* the first half of C29 alone
C29_AtMostTenAllowed == repoPlan = "free" => allowedCalls <= FREE_PLAN_LIMIT

\* the second half of C29 alone
C29_CountIsAllowedCalls ==
    (repoPlan = "free" /\ \A d \in DOMAIN deliveries : ~InsideCheckAndIncrementUsage(d))
        => StoredPrCount = allowedCalls

\* the call of checkAndIncrementUsage of the delivery returned allowed: true,
\* having added one to pr_count
ConsumedQuota(d) == deliveries[d].usageCheck = Some([allowed |-> TRUE])

\* C30: a pull request consumes quota of the month only if a summary comment
\* is posted for it: a pull request that shouldSkipPR skips, or whose
\* processing fails before the comment is posted, leaves pr_count unchanged.
C30_QuotaConsumedOnlyWithComment ==
    \A d \in DOMAIN deliveries :
        (Ended(d) /\ ConsumedQuota(d)) => deliveries[d].posted

\* a skipped pull request has consumed quota
C30_SkippedPullRequestConsumedQuota ==
    \E d \in DOMAIN deliveries :
        /\ deliveries[d].pc = "returned"
        /\ ConsumedQuota(d)
        /\ shouldSkipPR(deliveries[d].pr, getPRDiff(deliveries[d].pr.prFiles)).shouldSkip

=============================================================================
